---- MODULE Spec2Model ----
(***************************************************************************)
(* Model of the native shell of jellyfin-tauri (src-tauri/src/lib.rs):     *)
(*   - the OS media-session bridge (MediaControlsState, the media_notify  *)
(*     commands),                                                          *)
(*   - the persisted window geometry (window_save_geometry, the restore    *)
(*     at startup in run),                                                 *)
(*   - the debounced geometry save spawned on Moved/Resized events in run, *)
(*   - the cancellable server probe (check_server_connectivity,            *)
(*     cancel_server_connectivity),                                        *)
(*   - the translation of native media-control events (the callback        *)
(*     attached to the media controls in run).                             *)
(* Each subsystem has its own specification over the shared variables; a   *)
(* specification leaves the variables of the other subsystems unchanged.   *)
(***************************************************************************)
EXTENDS Integers, Sequences, FiniteSets, TLC

VARIABLES
    \* ---- MediaControlsState (lib.rs 695-704) and the OS session ----
    controls,            \* Mutex<Option<MediaControls>>: None or Some(handle)
    is_playing,          \* AtomicBool
    cached_title,        \* Mutex<String>
    cached_artist,       \* Mutex<Option<String>>
    cached_album,        \* Mutex<Option<String>>
    cached_cover_url,    \* Mutex<Option<String>>
    cached_duration_ms,  \* Mutex<Option<u64>>
    os_metadata,         \* argument of the last controls.set_metadata call
    os_playback,         \* argument of the last controls.set_playback call
    \* history of the media calls (not program state)
    fold,                \* field-wise override fold of the metadata calls so far
    only_metadata_calls, \* every call so far was notifyMetadata / notifyDuration
    last_metadata_call,  \* title, artist, album, cover_url of the latest notifyMetadata
    stop_since_metadata, \* a notifyStop came after the latest notifyMetadata
    last_call,           \* the last media call and its duration argument
    call_hist,           \* latest playback call, latest duration given, position
                         \* argument when notifyPosition was the last call
    \* ---- settings store, main window, process ----
    store,               \* settings.json: the keys present and their values
    win,                 \* main window: outer position/size, maximized, fullscreen
    phase,               \* "running" after setup, "exited" after app.exit
    \* history of the geometry operations (not program state)
    last_geom,           \* the last operation, the store before it, what it observed
    \* ---- debounced geometry save (run, lib.rs 1169-1200) ----
    now,                 \* the clock read by Instant::now(), in milliseconds
    debounce_timer,      \* Arc<Mutex<Option<Instant>>>
    tasks,               \* spawned debounce tasks still asleep: id -> wake-up time
    spawned,             \* number of debounce tasks spawned so far (the newest id)
    \* history of the debounce checks (not program state)
    checks,              \* what the checks fired so far did (counts and flags)
    burst_ok,            \* every gap between notifications so far was < QuietMs
    \* ---- server probe (lib.rs 30-95) ----
    cancel_flag,         \* ConnectivityCancelFlag: the shared AtomicBool
    probes,              \* per call of check_server_connectivity: position, locals, result
    \* history of the probe calls (not program state)
    probe_hist,          \* per call: what it observed and what happened during its flight
    \* ---- native media-control events (callback, lib.rs 1067-1110) ----
    minimized,           \* the main window is minimized
    focused,             \* the main window has the focus
    emitted,             \* the events the last callback emitted to the frontend
    exit_code,           \* the code passed to app_handle.exit by a callback, if any
    \* history of the callbacks (not program state)
    last_event,          \* the native event of the callback that was the last step
    event_bit,           \* flips at every callback
    \* ---- Windows taskbar progress (mod taskbar, lib.rs 560-681) ----
    taskbar_slot,        \* static TASKBAR: Mutex<Option<TaskbarProgress>>
    com,                 \* the ITaskbarList3 object: created, times released
    \* ---- commands and tasks running concurrently, statement by statement ----
    locks,               \* the mutexes held across statements: who holds each
    inside,              \* the threads inside a call on each foreign handle
    threads,             \* per command thread: position and locals
    task_pc,             \* per debounce task: position after the spawn
    \* ---- the request target of a probe, as a function of its url ----
    url_arg,             \* the url argument
    requested,           \* the target given to client.get, once computed
    \* ---- geometry saves running concurrently (lib.rs 322-350) ----
    savers,              \* per call of window_save_geometry: position and locals
    \* history of the saves (not program state)
    geom_writer,         \* per state.geometry key: the call that wrote it last
    \* ---- settings commands on settings.json (lib.rs 97-107, 157-266) ----
    settings_store,      \* the entries of the store, keyed character by character
    settings_emitted,    \* the event the last command emitted to the frontend
    \* history of the settings commands (not program state)
    last_settings,       \* the last command, its section, the store before it
    \* ---- screensaver inhibition on Linux (mod power, lib.rs 461-528) ----
    INHIBIT_COOKIE,      \* static INHIBIT_COOKIE: Mutex<Option<u32>>
    inhibited,           \* the cookies active at org.freedesktop.ScreenSaver
    issued,              \* the number of cookies the service has handed out
    \* history of the power calls (not program state)
    last_enabled,        \* the argument of the last call, if any
    dbus_failed          \* some D-Bus connection, call or reply has failed

media_vars == <<controls, is_playing, cached_title, cached_artist, cached_album,
                cached_cover_url, cached_duration_ms, os_metadata, os_playback,
                fold, only_metadata_calls, last_metadata_call,
                stop_since_metadata, last_call, call_hist>>

geometry_vars == <<store, win, phase, last_geom>>

debounce_vars == <<now, debounce_timer, tasks, spawned, checks, burst_ok>>

probe_vars == <<cancel_flag, probes, probe_hist>>

event_vars == <<minimized, focused, emitted, exit_code, last_event, event_bit>>

taskbar_vars == <<taskbar_slot, com>>

thread_vars == <<locks, inside, threads, task_pc>>

url_vars == <<url_arg, requested>>

save_vars == <<savers, geom_writer>>

settings_vars == <<settings_store, settings_emitted, last_settings>>

power_vars == <<INHIBIT_COOKIE, inhibited, issued, last_enabled, dbus_failed>>

\* The saves, the settings and the screensaver inhibition together
more_vars == <<save_vars, settings_vars, power_vars>>

vars == <<media_vars, geometry_vars, debounce_vars, probe_vars, event_vars,
          taskbar_vars, thread_vars, url_vars, more_vars>>

\* The variables of the subsystems added last, left alone by the others
rest_vars == <<taskbar_vars, thread_vars, url_vars, more_vars>>

\* Option<T>: None is the empty tuple, Some(v) the one-element tuple.
None == <<>>
Some(v) == <<v>>
Opt(S) == {None} \cup {Some(v) : v \in S}

\* ------------------------------------------------------------------------
\* Inputs of the media commands
\* ------------------------------------------------------------------------
Titles == {"T1", "T2"}
Artists == {"A1"}
Albums == {"B1"}
CoverUrls == {"U1"}
Durations == {1000, 2000}
Positions == {0, 5000}

\* souvlaki::MediaMetadata as built by the two set_metadata call sites
MediaMetadata(title, artist, album, cover_url, duration) ==
    [title |-> Some(title), artist |-> artist, album |-> album,
     cover_url |-> cover_url, duration |-> duration]

\* `if let Some(controls) = guard.as_mut() { controls.set_metadata(m).ok(); }`
set_metadata(m) ==
    os_metadata' = IF controls /= None THEN Some(m) ELSE os_metadata

\* `if let Some(controls) = guard.as_mut() { controls.set_playback(p).ok(); }`
set_playback(p) ==
    os_playback' = IF controls /= None THEN Some(p) ELSE os_playback

\* The cached metadata as one record
CachedMetadata ==
    [title |-> cached_title, artist |-> cached_artist, album |-> cached_album,
     cover_url |-> cached_cover_url, duration |-> cached_duration_ms]

\* MediaControlsState as managed in run: empty cache, not playing
EmptyMetadata ==
    [title |-> "", artist |-> None, album |-> None, cover_url |-> None,
     duration |-> None]

\* The field-wise override of the specification: a provided value wins, an
\* absent one keeps what was there (history only; the code is the actions).
Override(old, new) == IF new = None THEN old ELSE new

MediaInit ==
    /\ controls \in {None, Some("MediaControls")}
    /\ is_playing = FALSE
    /\ cached_title = ""
    /\ cached_artist = None
    /\ cached_album = None
    /\ cached_cover_url = None
    /\ cached_duration_ms = None
    /\ os_metadata = None
    /\ os_playback = None
    /\ fold = EmptyMetadata
    /\ only_metadata_calls = TRUE
    /\ last_metadata_call = EmptyMetadata
    /\ stop_since_metadata = FALSE
    /\ last_call = [op |-> "init", duration |-> None]
    /\ call_hist = [playback |-> "none", duration |-> None, position |-> None]

media_notify_playback_state(playing) ==
    /\ is_playing' = playing
    /\ set_playback(IF playing THEN [state |-> "Playing", progress |-> None]
                               ELSE [state |-> "Paused", progress |-> None])
    /\ only_metadata_calls' = FALSE
    /\ last_call' = [op |-> "playback_state", duration |-> None]
    /\ call_hist' = [call_hist EXCEPT !.playback = IF playing THEN "play" ELSE "pause",
                                      !.position = None]
    /\ UNCHANGED <<controls, cached_title, cached_artist, cached_album,
                   cached_cover_url, cached_duration_ms, os_metadata, fold,
                   last_metadata_call, stop_since_metadata>>

media_notify_metadata(title, artist, album, cover_url, duration_ms) ==
    /\ cached_title' = title
    /\ cached_artist' = artist
    /\ cached_album' = album
    /\ cached_cover_url' = cover_url
    /\ cached_duration_ms' = duration_ms
    /\ set_metadata(MediaMetadata(title, artist, album, cover_url, duration_ms))
    /\ fold' = [title |-> title,
                artist |-> Override(fold.artist, artist),
                album |-> Override(fold.album, album),
                cover_url |-> Override(fold.cover_url, cover_url),
                duration |-> Override(fold.duration, duration_ms)]
    /\ last_metadata_call' = [title |-> title, artist |-> artist, album |-> album,
                              cover_url |-> cover_url, duration |-> None]
    /\ stop_since_metadata' = FALSE
    /\ last_call' = [op |-> "metadata", duration |-> duration_ms]
    /\ call_hist' = [call_hist EXCEPT !.duration = duration_ms, !.position = None]
    /\ UNCHANGED <<controls, is_playing, os_playback, only_metadata_calls>>

\* Mutant: the duration-only update publishes the duration without the cached
\* title, artist, album and cover.
media_notify_duration_bare(duration_ms) ==
    /\ cached_duration_ms' = Some(duration_ms)
    /\ set_metadata(MediaMetadata("", None, None, None, Some(duration_ms)))
    /\ fold' = [fold EXCEPT !.duration = Some(duration_ms)]
    /\ last_call' = [op |-> "duration", duration |-> Some(duration_ms)]
    /\ call_hist' = [call_hist EXCEPT !.duration = Some(duration_ms),
                                      !.position = None]
    /\ UNCHANGED <<controls, is_playing, cached_title, cached_artist,
                   cached_album, cached_cover_url, os_playback,
                   only_metadata_calls, last_metadata_call,
                   stop_since_metadata>>

media_notify_duration(duration_ms) ==
    /\ cached_duration_ms' = Some(duration_ms)
    /\ set_metadata(MediaMetadata(cached_title, cached_artist, cached_album,
                                  cached_cover_url, Some(duration_ms)))
    /\ fold' = [fold EXCEPT !.duration = Some(duration_ms)]
    /\ last_call' = [op |-> "duration", duration |-> Some(duration_ms)]
    /\ call_hist' = [call_hist EXCEPT !.duration = Some(duration_ms),
                                      !.position = None]
    /\ UNCHANGED <<controls, is_playing, cached_title, cached_artist,
                   cached_album, cached_cover_url, os_playback,
                   only_metadata_calls, last_metadata_call,
                   stop_since_metadata>>

\* Mutant: without a session the stop does nothing at all.
media_notify_stop_needs_session ==
    /\ is_playing' = IF controls /= None THEN FALSE ELSE is_playing
    /\ set_playback([state |-> "Stopped", progress |-> None])
    /\ only_metadata_calls' = FALSE
    /\ stop_since_metadata' = TRUE
    /\ last_call' = [op |-> "stop", duration |-> None]
    /\ call_hist' = [call_hist EXCEPT !.playback = "stop", !.position = None]
    /\ UNCHANGED <<controls, cached_title, cached_artist, cached_album,
                   cached_cover_url, cached_duration_ms, os_metadata, fold,
                   last_metadata_call>>

media_notify_stop ==
    /\ is_playing' = FALSE
    /\ set_playback([state |-> "Stopped", progress |-> None])
    /\ only_metadata_calls' = FALSE
    /\ stop_since_metadata' = TRUE
    /\ last_call' = [op |-> "stop", duration |-> None]
    /\ call_hist' = [call_hist EXCEPT !.playback = "stop", !.position = None]
    /\ UNCHANGED <<controls, cached_title, cached_artist, cached_album,
                   cached_cover_url, cached_duration_ms, os_metadata, fold,
                   last_metadata_call>>

\* Mutant: a position update always publishes Playing.
media_notify_position_always_playing(position_ms) ==
    /\ set_playback([state |-> "Playing", progress |-> Some(position_ms)])
    /\ only_metadata_calls' = FALSE
    /\ last_call' = [op |-> "position", duration |-> None]
    /\ call_hist' = [call_hist EXCEPT !.position = Some(position_ms)]
    /\ UNCHANGED <<controls, is_playing, cached_title, cached_artist,
                   cached_album, cached_cover_url, cached_duration_ms,
                   os_metadata, fold, last_metadata_call,
                   stop_since_metadata>>

media_notify_position(position_ms) ==
    /\ set_playback(IF is_playing
                    THEN [state |-> "Playing", progress |-> Some(position_ms)]
                    ELSE [state |-> "Paused", progress |-> Some(position_ms)])
    /\ only_metadata_calls' = FALSE
    /\ last_call' = [op |-> "position", duration |-> None]
    /\ call_hist' = [call_hist EXCEPT !.position = Some(position_ms)]
    /\ UNCHANGED <<controls, is_playing, cached_title, cached_artist,
                   cached_album, cached_cover_url, cached_duration_ms,
                   os_metadata, fold, last_metadata_call,
                   stop_since_metadata>>

\* Inputs of the calls the session binding has no counterpart for
\* (f64 values in hundredths)
GapVolumes == {0, 50, 100}
Rates == {50, 100, 200}
RepeatModes == {"RepeatNone", "RepeatAll", "RepeatOne", ""}

\* The body of the five calls: a debug! line, nothing else
not_forwarded(op) ==
    /\ only_metadata_calls' = FALSE
    /\ last_call' = [op |-> op, duration |-> None]
    /\ call_hist' = [call_hist EXCEPT !.position = None]
    /\ UNCHANGED <<controls, is_playing, cached_title, cached_artist,
                   cached_album, cached_cover_url, cached_duration_ms,
                   os_metadata, os_playback, fold, last_metadata_call,
                   stop_since_metadata>>

\* Mutant: the volume is forwarded as a progress-less playback update.
media_notify_volume_forwarded(volume) ==
    /\ set_playback(IF is_playing THEN [state |-> "Playing", progress |-> None]
                                  ELSE [state |-> "Paused", progress |-> None])
    /\ only_metadata_calls' = FALSE
    /\ last_call' = [op |-> "volume", duration |-> None]
    /\ call_hist' = [call_hist EXCEPT !.position = None]
    /\ UNCHANGED <<controls, is_playing, cached_title, cached_artist,
                   cached_album, cached_cover_url, cached_duration_ms,
                   os_metadata, fold, last_metadata_call,
                   stop_since_metadata>>

media_notify_volume(volume) == not_forwarded("volume")

media_notify_rate(rate) == not_forwarded("rate")

media_notify_shuffle(enabled) == not_forwarded("shuffle")

media_notify_repeat(mode) == not_forwarded("repeat")

media_notify_queue(can_next, can_prev) == not_forwarded("queue")

MediaNext ==
    \/ \E playing \in BOOLEAN :
          media_notify_playback_state(playing) /\ UNCHANGED <<geometry_vars, debounce_vars, probe_vars, event_vars, rest_vars>>
    \/ \E title \in Titles, artist \in Opt(Artists), album \in Opt(Albums),
          cover_url \in Opt(CoverUrls), duration_ms \in Opt(Durations) :
          /\ media_notify_metadata(title, artist, album, cover_url, duration_ms)
          /\ UNCHANGED <<geometry_vars, debounce_vars, probe_vars, event_vars, rest_vars>>
    \/ \E duration_ms \in Durations :
          media_notify_duration(duration_ms) /\ UNCHANGED <<geometry_vars, debounce_vars, probe_vars, event_vars, rest_vars>>
    \/ media_notify_stop /\ UNCHANGED <<geometry_vars, debounce_vars, probe_vars, event_vars, rest_vars>>
    \/ \E position_ms \in Positions :
          media_notify_position(position_ms) /\ UNCHANGED <<geometry_vars, debounce_vars, probe_vars, event_vars, rest_vars>>
    \/ \E volume \in GapVolumes :
          media_notify_volume(volume) /\ UNCHANGED <<geometry_vars, debounce_vars, probe_vars, event_vars, rest_vars>>
    \/ \E rate \in Rates :
          media_notify_rate(rate) /\ UNCHANGED <<geometry_vars, debounce_vars, probe_vars, event_vars, rest_vars>>
    \/ \E enabled \in BOOLEAN :
          media_notify_shuffle(enabled) /\ UNCHANGED <<geometry_vars, debounce_vars, probe_vars, event_vars, rest_vars>>
    \/ \E mode \in RepeatModes :
          media_notify_repeat(mode) /\ UNCHANGED <<geometry_vars, debounce_vars, probe_vars, event_vars, rest_vars>>
    \/ \E can_next \in BOOLEAN, can_prev \in BOOLEAN :
          media_notify_queue(can_next, can_prev)
          /\ UNCHANGED <<geometry_vars, debounce_vars, probe_vars, event_vars, rest_vars>>

\* ------------------------------------------------------------------------
\* Settings store and window geometry
\* ------------------------------------------------------------------------

\* Result<T, E>
Ok(v) == <<"Ok", v>>
Err == <<"Err">>
is_ok(r) == r[1] = "Ok"
unwrap(r) == r[2]
unwrap_or(r, default) == IF is_ok(r) THEN unwrap(r) ELSE default

\* tauri_plugin_store: store.set / store.get on the flat key-value map
StoreSet(s, k, v) == [kk \in DOMAIN s \cup {k} |-> IF kk = k THEN v ELSE s[kk]]
StoreGet(s, k) == IF k \in DOMAIN s THEN Some(s[k]) ELSE None
EmptyStore == [k \in {} |-> 0]

KeyX == "state.geometry.x"
KeyY == "state.geometry.y"
KeyW == "state.geometry.w"
KeyH == "state.geometry.h"
KeyMaximized == "state.geometry.maximized"

\* Placement of the window built from the configuration (tauri.conf.json is
\* not part of the sources; any placement above the floor serves).
DefaultPlacement == [x |-> 100, y |-> 100, w |-> 1280, h |-> 720]

\* Outer position and size the window system can report: the default, the
\* floor itself, and sizes just below it (as during a minimize transition).
Placements ==
    { DefaultPlacement,
      [x |-> 0, y |-> 0, w |-> 200, h |-> 150],
      [x |-> 10, y |-> 20, w |-> 199, h |-> 150],
      [x |-> 30, y |-> 40, w |-> 200, h |-> 149],
      [x |-> -32000, y |-> -32000, w |-> 150, h |-> 28] }

PlacementOf(w) == [x |-> w.x, y |-> w.y, w |-> w.w, h |-> w.h]

\* Which of the window queries of one save succeed
Queries == [fullscreen_ok : BOOLEAN, maximized_ok : BOOLEAN,
            position_ok : BOOLEAN, size_ok : BOOLEAN]

is_fullscreen(w, q) == IF q.fullscreen_ok THEN Ok(w.fullscreen) ELSE Err
is_maximized(w, q) == IF q.maximized_ok THEN Ok(w.maximized) ELSE Err
outer_position(w, q) == IF q.position_ok THEN Ok([x |-> w.x, y |-> w.y]) ELSE Err
outer_size(w, q) == IF q.size_ok THEN Ok([width |-> w.w, height |-> w.h]) ELSE Err

\* Mutant: the save without the early return while fullscreen.
window_save_geometry_no_fullscreen_skip(s, w, q) ==
    IF unwrap_or(is_maximized(w, q), FALSE)
    THEN [store |-> StoreSet(s, KeyMaximized, TRUE), result |-> "Ok"]
    ELSE IF ~is_ok(outer_position(w, q)) \/ ~is_ok(outer_size(w, q))
    THEN [store |-> s, result |-> "Err"]
    ELSE [store |-> StoreSet(StoreSet(StoreSet(StoreSet(StoreSet(s,
                        KeyX, w.x), KeyY, w.y), KeyW, w.w), KeyH, w.h),
                        KeyMaximized, FALSE),
          result |-> "Ok"]

\* Mutant: the save writes position and size also while maximized.
window_save_geometry_writes_when_maximized(s, w, q) ==
    IF unwrap_or(is_fullscreen(w, q), FALSE)
    THEN [store |-> s, result |-> "Ok"]
    ELSE IF ~is_ok(outer_position(w, q)) \/ ~is_ok(outer_size(w, q))
    THEN [store |-> s, result |-> "Err"]
    ELSE [store |-> StoreSet(StoreSet(StoreSet(StoreSet(StoreSet(s,
                        KeyX, w.x), KeyY, w.y), KeyW, w.w), KeyH, w.h),
                        KeyMaximized, unwrap_or(is_maximized(w, q), FALSE)),
          result |-> "Ok"]

\* Mutant: the position is written before the size is read.
window_save_geometry_writes_before_size(s, w, q) ==
    IF unwrap_or(is_fullscreen(w, q), FALSE)
    THEN [store |-> s, result |-> "Ok"]
    ELSE IF unwrap_or(is_maximized(w, q), FALSE)
    THEN [store |-> StoreSet(s, KeyMaximized, TRUE), result |-> "Ok"]
    ELSE IF ~is_ok(outer_position(w, q)) THEN [store |-> s, result |-> "Err"]
    ELSE IF ~is_ok(outer_size(w, q))
    THEN [store |-> StoreSet(StoreSet(s, KeyX, w.x), KeyY, w.y), result |-> "Err"]
    ELSE [store |-> StoreSet(StoreSet(StoreSet(StoreSet(StoreSet(s,
                        KeyX, w.x), KeyY, w.y), KeyW, w.w), KeyH, w.h),
                        KeyMaximized, FALSE),
          result |-> "Ok"]

\* window_save_geometry: the store after the call and the value returned
window_save_geometry(s, w, q) ==
    IF unwrap_or(is_fullscreen(w, q), FALSE)
    THEN [store |-> s, result |-> "Ok"]
    ELSE LET maximized == unwrap_or(is_maximized(w, q), FALSE) IN
         IF maximized
         THEN [store |-> StoreSet(s, KeyMaximized, TRUE), result |-> "Ok"]
         ELSE LET pos == outer_position(w, q)
                  size == outer_size(w, q) IN
              IF ~is_ok(pos) THEN [store |-> s, result |-> "Err"]
              ELSE IF ~is_ok(size) THEN [store |-> s, result |-> "Err"]
              ELSE [store |->
                      StoreSet(StoreSet(StoreSet(StoreSet(StoreSet(s,
                          KeyX, unwrap(pos).x),
                          KeyY, unwrap(pos).y),
                          KeyW, unwrap(size).width),
                          KeyH, unwrap(size).height),
                          KeyMaximized, FALSE),
                    result |-> "Ok"]

\* What a save observed, for the history: the store before it, the values of
\* is_fullscreen().unwrap_or(false) and is_maximized().unwrap_or(false), and
\* the value returned. (For a start, `fullscreen` holds cli.fullscreen.)
Observed(op, s, w, q, r) ==
    [op |-> op, pre |-> s,
     fullscreen |-> unwrap_or(is_fullscreen(w, q), FALSE),
     maximized |-> unwrap_or(is_maximized(w, q), FALSE),
     result |-> r]

\* serde_json Value::as_i64 / as_u64 on a stored number, and the `as i32` /
\* `as u32` casts. What the store holds was written from an i32 (position)
\* or a u32 (size); every integer of the model lies in the i32 range, where
\* both casts keep the value.
as_i64(v) == v
as_u64(v) == IF v[1] >= 0 THEN v ELSE None
AsI32(n) == n
AsU32(n) == n
map_i32(v) == IF v = None THEN None ELSE Some(AsI32(v[1]))
map_u32(v) == IF v = None THEN None ELSE Some(AsU32(v[1]))
and_then_as_i64(v) == IF v = None THEN None ELSE as_i64(v)
and_then_as_u64(v) == IF v = None THEN None ELSE as_u64(v)

\* Mutant: the restore checks the width only.
restore_geometry_width_only(s, w) ==
    LET x == map_i32(and_then_as_i64(StoreGet(s, KeyX)))
        y == map_i32(and_then_as_i64(StoreGet(s, KeyY)))
        ww == map_u32(and_then_as_u64(StoreGet(s, KeyW)))
        h == map_u32(and_then_as_u64(StoreGet(s, KeyH)))
        maximized == StoreGet(s, KeyMaximized) = Some(TRUE)
        placed == IF x /= None /\ y /= None /\ ww /= None /\ h /= None
                     /\ ww[1] >= 200
                  THEN [w EXCEPT !.x = x[1], !.y = y[1], !.w = ww[1], !.h = h[1]]
                  ELSE w
    IN  IF maximized THEN [placed EXCEPT !.maximized = TRUE] ELSE placed

\* run, "Restore saved window geometry": the window after the restore
restore_geometry(s, w) ==
    LET x == map_i32(and_then_as_i64(StoreGet(s, KeyX)))
        y == map_i32(and_then_as_i64(StoreGet(s, KeyY)))
        ww == map_u32(and_then_as_u64(StoreGet(s, KeyW)))
        h == map_u32(and_then_as_u64(StoreGet(s, KeyH)))
        maximized == StoreGet(s, KeyMaximized) = Some(TRUE)
        placed == IF x /= None /\ y /= None /\ ww /= None /\ h /= None
                     /\ ww[1] >= 200 /\ h[1] >= 150
                  THEN [w EXCEPT !.x = x[1], !.y = y[1], !.w = ww[1], !.h = h[1]]
                  ELSE w
    IN  IF maximized THEN [placed EXCEPT !.maximized = TRUE] ELSE placed

\* The main window as built from the configuration
NewWindow ==
    [x |-> DefaultPlacement.x, y |-> DefaultPlacement.y,
     w |-> DefaultPlacement.w, h |-> DefaultPlacement.h,
     maximized |-> FALSE, fullscreen |-> FALSE]

\* run, setup closure: the CLI fullscreen override, else the restore
setup_window(s, cli_fullscreen) ==
    IF cli_fullscreen
    THEN [NewWindow EXCEPT !.fullscreen = TRUE]
    ELSE restore_geometry(s, NewWindow)

NoOp(op) ==
    [op |-> op, pre |-> EmptyStore, fullscreen |-> FALSE, maximized |-> FALSE,
     result |-> "Ok"]

\* First start: nothing persisted yet
GeometryInit ==
    /\ store = EmptyStore
    /\ phase = "running"
    /\ \E cli_fullscreen \in BOOLEAN :
          /\ win = setup_window(EmptyStore, cli_fullscreen)
          /\ last_geom = [NoOp("startup") EXCEPT !.fullscreen = cli_fullscreen]

\* A later start of the application on the persisted store
run_setup(cli_fullscreen) ==
    /\ phase = "exited"
    /\ phase' = "running"
    /\ win' = setup_window(store, cli_fullscreen)
    /\ last_geom' = [NoOp("startup") EXCEPT !.pre = store,
                                            !.fullscreen = cli_fullscreen]
    /\ UNCHANGED store

\* system_exit / MediaControlEvent::Quit: app.exit(0); the store stays on disk
system_exit ==
    /\ phase = "running"
    /\ phase' = "exited"
    /\ last_geom' = NoOp("exit")
    /\ UNCHANGED <<store, win>>

\* The user (or the window system) moves or resizes the window
WindowMovedOrResized(p) ==
    /\ phase = "running"
    /\ win' = [win EXCEPT !.x = p.x, !.y = p.y, !.w = p.w, !.h = p.h]
    /\ win' /= win
    /\ last_geom' = NoOp("window")
    /\ UNCHANGED <<store, phase>>

\* The user maximizes or restores the window
WindowMaximized(maximized) ==
    /\ phase = "running"
    /\ win.maximized /= maximized
    /\ win' = [win EXCEPT !.maximized = maximized]
    /\ last_geom' = NoOp("window")
    /\ UNCHANGED <<store, phase>>

\* window_set_fullscreen command
window_set_fullscreen(fullscreen) ==
    /\ phase = "running"
    /\ win.fullscreen /= fullscreen
    /\ win' = [win EXCEPT !.fullscreen = fullscreen]
    /\ last_geom' = NoOp("window")
    /\ UNCHANGED <<store, phase>>

\* window_save_geometry invoked by the frontend
window_save_geometry_command(q) ==
    /\ phase = "running"
    /\ LET r == window_save_geometry(store, win, q) IN
          /\ store' = r.store
          /\ last_geom' = Observed("command", store, win, q, r.result)
    /\ UNCHANGED <<win, phase>>

\* The spawned debounce task once its check passed:
\* `let _ = window_save_geometry(app_h).await;` (when it passes: SpecDebounce)
debounced_save(q) ==
    /\ phase = "running"
    /\ LET r == window_save_geometry(store, win, q) IN
          /\ store' = r.store
          /\ last_geom' = Observed("debounce", store, win, q, r.result)
    /\ UNCHANGED <<win, phase>>

GeometryNext ==
    \/ \E cli_fullscreen \in BOOLEAN :
          run_setup(cli_fullscreen) /\ UNCHANGED <<media_vars, debounce_vars, probe_vars, event_vars, rest_vars>>
    \/ system_exit /\ UNCHANGED <<media_vars, debounce_vars, probe_vars, event_vars, rest_vars>>
    \/ \E p \in Placements : WindowMovedOrResized(p) /\ UNCHANGED <<media_vars, debounce_vars, probe_vars, event_vars, rest_vars>>
    \/ \E maximized \in BOOLEAN :
          WindowMaximized(maximized) /\ UNCHANGED <<media_vars, debounce_vars, probe_vars, event_vars, rest_vars>>
    \/ \E fullscreen \in BOOLEAN :
          window_set_fullscreen(fullscreen) /\ UNCHANGED <<media_vars, debounce_vars, probe_vars, event_vars, rest_vars>>
    \/ \E q \in Queries :
          window_save_geometry_command(q) /\ UNCHANGED <<media_vars, debounce_vars, probe_vars, event_vars, rest_vars>>
    \/ \E q \in Queries : debounced_save(q) /\ UNCHANGED <<media_vars, debounce_vars, probe_vars, event_vars, rest_vars>>

\* ------------------------------------------------------------------------
\* Debounced geometry save on Moved / Resized
\* ------------------------------------------------------------------------
SleepMs == 1000
QuietMs == 900

\* Granularity of the clock, the horizon of the run and the number of
\* notifications explored
TickMs == 100
MaxTime == 1500
MaxEvents == 3

TaskIds == 1..MaxEvents

WindowEvents == {"Moved", "Resized", "Focused"}

\* Placements the window takes while the debouncer is explored
DebouncePlacements ==
    { DefaultPlacement, [x |-> -32000, y |-> -32000, w |-> 150, h |-> 28] }

DebounceInit ==
    /\ now = 0
    /\ debounce_timer = None
    /\ tasks = [id \in {} |-> 0]
    /\ spawned = 0
    /\ checks = [commits |-> 0, stale_commit |-> FALSE,
                 newest_not_due |-> FALSE, blocked |-> FALSE]
    /\ burst_ok = TRUE

\* `t.elapsed()`
elapsed(t) == now - t

\* Mutant: the check compares against the sleep time, strictly.
should_run_after_sleep ==
    IF debounce_timer = None THEN FALSE
    ELSE elapsed(debounce_timer[1]) > SleepMs

\* `timer.map(|t| t.elapsed() >= 900ms).unwrap_or(false)`
should_run ==
    IF debounce_timer = None THEN FALSE
    ELSE elapsed(debounce_timer[1]) >= QuietMs

\* Time passes
Tick ==
    /\ now + TickMs <= MaxTime
    /\ now' = now + TickMs
    /\ UNCHANGED <<debounce_timer, tasks, spawned, checks, burst_ok>>
    /\ UNCHANGED geometry_vars

\* win.on_window_event handler: Moved / Resized set the timer and spawn a task
on_window_event(event) ==
    /\ phase = "running"
    /\ spawned < MaxEvents
    /\ now + SleepMs <= MaxTime
    /\ IF event \in {"Moved", "Resized"}
       THEN /\ debounce_timer' = Some(now)
            /\ spawned' = spawned + 1
            /\ tasks' = [id \in DOMAIN tasks \cup {spawned + 1} |->
                            IF id = spawned + 1 THEN now + SleepMs ELSE tasks[id]]
            /\ burst_ok' = (burst_ok /\ (debounce_timer = None
                                         \/ elapsed(debounce_timer[1]) < QuietMs))
       ELSE UNCHANGED <<debounce_timer, spawned, tasks, burst_ok>>
    /\ UNCHANGED <<now, checks>>
    /\ UNCHANGED geometry_vars

\* The spawned task from the end of its sleep on: the check, then the save
debounce_task(id, q) ==
    /\ phase = "running"
    /\ id \in DOMAIN tasks
    /\ now >= tasks[id]
    /\ tasks' = [i \in DOMAIN tasks \ {id} |-> tasks[i]]
    /\ IF should_run
       THEN LET r == window_save_geometry(store, win, q)
                o == Observed("debounce", store, win, q, r.result) IN
            /\ store' = r.store
            /\ checks' =
                  IF o.fullscreen \/ r.result /= "Ok"
                  THEN [checks EXCEPT !.blocked = TRUE]
                  ELSE [checks EXCEPT
                          !.commits = @ + 1,
                          !.stale_commit = @ \/ id /= spawned]
       ELSE /\ checks' = [checks EXCEPT
                            !.newest_not_due = @ \/ id = spawned]
            /\ UNCHANGED store
    /\ last_geom' = NoOp("task")
    /\ UNCHANGED <<now, debounce_timer, spawned, burst_ok, win, phase>>

\* The clock advances (the rest of the program untouched)
ClockTick == Tick /\ UNCHANGED <<media_vars, probe_vars, event_vars, rest_vars>>

\* Task id wakes up and runs to its end
TaskRuns(id) ==
    \E q \in Queries :
        debounce_task(id, q) /\ UNCHANGED <<media_vars, probe_vars, event_vars, rest_vars>>

DebounceNext ==
    \/ ClockTick
    \/ \E event \in WindowEvents :
          on_window_event(event) /\ UNCHANGED <<media_vars, probe_vars, event_vars, rest_vars>>
    \/ \E id \in TaskIds : TaskRuns(id)
    \/ \E p \in DebouncePlacements :
          WindowMovedOrResized(p) /\ UNCHANGED <<media_vars, debounce_vars, probe_vars, event_vars, rest_vars>>
    \/ \E fullscreen \in BOOLEAN :
          window_set_fullscreen(fullscreen) /\ UNCHANGED <<media_vars, debounce_vars, probe_vars, event_vars, rest_vars>>

\* ------------------------------------------------------------------------
\* Server probe: check_server_connectivity / cancel_server_connectivity
\* ------------------------------------------------------------------------

\* Number of calls of check_server_connectivity explored
MaxProbes == 2

ProbeIds == 1..MaxProbes

\* url argument: a sequence of characters; "h" stands for `https://host`
Urls == { <<"h", "/">> }

\* Mutant: only one trailing slash is removed.
strip_suffix_slash(u) ==
    IF u /= <<>> /\ u[Len(u)] = "/" THEN SubSeq(u, 1, Len(u) - 1) ELSE u

\* str::trim_end_matches('/')
RECURSIVE trim_end_matches_slash(_)
trim_end_matches_slash(u) ==
    IF u /= <<>> /\ u[Len(u)] = "/"
    THEN trim_end_matches_slash(SubSeq(u, 1, Len(u) - 1))
    ELSE u

\* format!("{}/System/Info/Public", url.trim_end_matches('/'))
info_url(u) == trim_end_matches_slash(u) \o <<"/", "System/Info/Public">>

\* HTTP status codes a server answers with
Statuses == {200, 404}

\* StatusCode::is_success
is_success(status) == 200 <= status /\ status <= 299

\* #[derive(Deserialize)] struct ServerInfo, fields renamed from ServerName,
\* Version, Id
ServerInfo(name, version, id) == [name |-> name, version |-> version, id |-> id]

\* The body a server sends: the identity document, or anything that does not
\* deserialize into ServerInfo (not JSON, a field missing, truncated)
IdentityDocument == [json |-> TRUE, ServerName |-> "Home", Version |-> "10.9.0", Id |-> "abc"]
InvalidBody == [json |-> FALSE, ServerName |-> "", Version |-> "", Id |-> ""]
Bodies == { IdentityDocument, InvalidBody }

\* What comes back for a request: no connection (refused, TLS, timeout after
\* 10 s), or a response with a status and a body
NoConnection == [connected |-> FALSE, target |-> <<>>, status |-> 0, body |-> InvalidBody]
Responses(target) ==
    {NoConnection} \cup
    {[connected |-> TRUE, target |-> target, status |-> status, body |-> body] :
        status \in Statuses, body \in Bodies}

\* resp.json::<ServerInfo>()
json(body) ==
    IF body.json THEN Ok(ServerInfo(body.ServerName, body.Version, body.Id)) ELSE Err

\* Result<ServerInfo, String>: the Err values of check_server_connectivity
BuildFailed == <<"Err", "build">>
Cancelled == <<"Err", "Cancelled">>
ConnectionFailed == <<"Err", "Connection failed">>
ServerReturnedStatus(status) == <<"Err", "Server returned status", status>>
InvalidServerResponse == <<"Err", "Invalid server response">>

\* A call not yet made
IdleProbe == [pc |-> "idle", url |-> None, resp |-> None, result |-> None]

\* Nothing observed yet
NoProbeHist ==
    [build |-> "none", check1 |-> "none", connect |-> "none", check2 |-> "none",
     body |-> "none", requests |-> 0, flag_at_start |-> FALSE,
     cancelled |-> FALSE, superseded |-> FALSE, cancel_then_reset |-> FALSE,
     cancel_pending |-> FALSE]

ProbeInit ==
    /\ cancel_flag = FALSE
    /\ probes = [p \in ProbeIds |-> IdleProbe]
    /\ probe_hist = [p \in ProbeIds |-> NoProbeHist]

InFlight(p) == probes[p].pc \notin {"idle", "done"}

\* `return` / `?` / the final Ok: the call resolves with r
Resolve(p, r) == [probes EXCEPT ![p].pc = "done", ![p].result = Some(r)]

\* Mutant: a new probe leaves the flag as it finds it.
probe_start_keeps_flag(p, url) ==
    /\ probes[p].pc = "idle"
    /\ UNCHANGED cancel_flag
    /\ probes' = [probes EXCEPT ![p].pc = "build", ![p].url = Some(url)]
    /\ probe_hist' =
          [q \in ProbeIds |->
              IF q = p THEN [probe_hist[q] EXCEPT !.flag_at_start = cancel_flag,
                                                  !.cancel_pending = cancel_flag]
              ELSE IF InFlight(q)
              THEN [probe_hist[q] EXCEPT !.superseded = TRUE]
              ELSE probe_hist[q]]

\* check_server_connectivity, entry: `cancel_flag.0.store(false, Relaxed)`
probe_start(p, url) ==
    /\ probes[p].pc = "idle"
    /\ cancel_flag' = FALSE
    /\ probes' = [probes EXCEPT ![p].pc = "build", ![p].url = Some(url)]
    /\ probe_hist' =
          [q \in ProbeIds |->
              IF q = p THEN [probe_hist[q] EXCEPT !.flag_at_start = cancel_flag]
              ELSE IF InFlight(q)
              THEN [probe_hist[q] EXCEPT
                      !.superseded = TRUE,
                      !.cancel_then_reset = @ \/ cancel_flag,
                      !.cancel_pending = FALSE]
              ELSE probe_hist[q]]

\* `reqwest::Client::builder()...build().map_err(..)?`
probe_build(p, built) ==
    /\ probes[p].pc = "build"
    /\ probes' = IF built THEN [probes EXCEPT ![p].pc = "check1"]
                 ELSE Resolve(p, BuildFailed)
    /\ probe_hist' = [probe_hist EXCEPT ![p].build = IF built THEN "ok" ELSE "err"]
    /\ UNCHANGED cancel_flag

\* Mutant: a probe also counts as cancelled once a newer probe has started.
load_cancel_flag_generation(p) == cancel_flag \/ probe_hist[p].superseded

\* `cancel_flag.0.load(Relaxed)` as call p reads it
load_cancel_flag(p) == cancel_flag

\* Mutant: the request is issued before the flag is looked at.
probe_check_before_request_sends_first(p) ==
    /\ probes[p].pc = "check1"
    /\ probes' = IF load_cancel_flag(p) THEN Resolve(p, Cancelled)
                 ELSE [probes EXCEPT ![p].pc = "await"]
    /\ probe_hist' = [probe_hist EXCEPT
                        ![p].check1 = IF load_cancel_flag(p) THEN "set" ELSE "clear",
                        ![p].requests = @ + 1]
    /\ UNCHANGED cancel_flag

\* The first flag check, then `client.get(&info_url).send()`
probe_check_before_request(p) ==
    /\ probes[p].pc = "check1"
    /\ IF load_cancel_flag(p)
       THEN /\ probes' = Resolve(p, Cancelled)
            /\ probe_hist' = [probe_hist EXCEPT ![p].check1 = "set"]
       ELSE /\ probes' = [probes EXCEPT ![p].pc = "await"]
            /\ probe_hist' = [probe_hist EXCEPT ![p].check1 = "clear",
                                                ![p].requests = @ + 1]
    /\ UNCHANGED cancel_flag

\* `.send().await.map_err(..)?`: the request ends
probe_response(p, r) ==
    /\ probes[p].pc = "await"
    /\ IF r.connected
       THEN /\ probes' = [probes EXCEPT ![p].pc = "check2", ![p].resp = Some(r)]
            /\ probe_hist' = [probe_hist EXCEPT ![p].connect = "ok"]
       ELSE /\ probes' = Resolve(p, ConnectionFailed)
            /\ probe_hist' = [probe_hist EXCEPT ![p].connect = "failed"]
    /\ UNCHANGED cancel_flag

\* Mutant: the status of the response is not looked at.
probe_check_after_response_any_status(p) ==
    /\ probes[p].pc = "check2"
    /\ probes' = IF load_cancel_flag(p) THEN Resolve(p, Cancelled)
                 ELSE [probes EXCEPT ![p].pc = "read_body"]
    /\ probe_hist' = [probe_hist EXCEPT
                        ![p].check2 = IF load_cancel_flag(p) THEN "set" ELSE "clear"]
    /\ UNCHANGED cancel_flag

\* The second flag check, then `if !status.is_success() { return Err(..) }`
probe_check_after_response(p) ==
    /\ probes[p].pc = "check2"
    /\ LET status == probes[p].resp[1].status IN
       probes' = IF load_cancel_flag(p) THEN Resolve(p, Cancelled)
                 ELSE IF ~is_success(status)
                 THEN Resolve(p, ServerReturnedStatus(status))
                 ELSE [probes EXCEPT ![p].pc = "read_body"]
    /\ probe_hist' = [probe_hist EXCEPT
                        ![p].check2 = IF load_cancel_flag(p) THEN "set" ELSE "clear"]
    /\ UNCHANGED cancel_flag

\* `resp.json::<ServerInfo>().await.map_err(..)?` and `Ok(server_info)`
probe_read_body(p) ==
    /\ probes[p].pc = "read_body"
    /\ LET server_info == json(probes[p].resp[1].body) IN
       /\ probes' = IF is_ok(server_info) THEN Resolve(p, Ok(unwrap(server_info)))
                    ELSE Resolve(p, InvalidServerResponse)
       /\ probe_hist' = [probe_hist EXCEPT
                           ![p].body = IF is_ok(server_info) THEN "parsed"
                                       ELSE "invalid"]
    /\ UNCHANGED cancel_flag

\* cancel_server_connectivity: `cancel_flag.0.store(true, Relaxed)`
cancel_server_connectivity ==
    /\ cancel_flag' = TRUE
    /\ probe_hist' =
          [q \in ProbeIds |->
              IF InFlight(q)
              THEN [probe_hist[q] EXCEPT !.cancelled = TRUE, !.cancel_pending = TRUE]
              ELSE probe_hist[q]]
    /\ UNCHANGED probes

ProbeNext ==
    \/ \E p \in ProbeIds, url \in Urls :
          probe_start(p, url) /\ UNCHANGED <<media_vars, geometry_vars, debounce_vars, event_vars, rest_vars>>
    \/ \E p \in ProbeIds, built \in BOOLEAN :
          probe_build(p, built) /\ UNCHANGED <<media_vars, geometry_vars, debounce_vars, event_vars, rest_vars>>
    \/ \E p \in ProbeIds :
          probe_check_before_request(p) /\ UNCHANGED <<media_vars, geometry_vars, debounce_vars, event_vars, rest_vars>>
    \/ \E p \in ProbeIds :
          /\ probes[p].pc = "await"
          /\ \E r \in Responses(info_url(probes[p].url[1])) :
                probe_response(p, r) /\ UNCHANGED <<media_vars, geometry_vars, debounce_vars, event_vars, rest_vars>>
    \/ \E p \in ProbeIds :
          probe_check_after_response(p) /\ UNCHANGED <<media_vars, geometry_vars, debounce_vars, event_vars, rest_vars>>
    \/ \E p \in ProbeIds :
          probe_read_body(p) /\ UNCHANGED <<media_vars, geometry_vars, debounce_vars, event_vars, rest_vars>>
    \/ cancel_server_connectivity /\ UNCHANGED <<media_vars, geometry_vars, debounce_vars, event_vars, rest_vars>>

\* ------------------------------------------------------------------------
\* Native media-control events: the callback attached in run
\* ------------------------------------------------------------------------

\* std::time::Duration values, in microseconds
SeekDurations == {0, 1500, 5000000}
SetPositions == {0, 90000999}
\* f64 volume, in hundredths
Volumes == {0, 50, 100}
Uris == {"file:///a.mp3"}

\* souvlaki::MediaControlEvent
MediaControlEvent(kind, direction, value, uri) ==
    [kind |-> kind, direction |-> direction, value |-> value, uri |-> uri]

PayloadlessEvents ==
    {MediaControlEvent(kind, "", 0, "") :
        kind \in {"Play", "Pause", "Toggle", "Next", "Previous", "Stop"}}
    \cup {MediaControlEvent("Seek", direction, 0, "") :
             direction \in {"Forward", "Backward"}}

PayloadEvents ==
    {MediaControlEvent("SeekBy", direction, duration, "") :
        direction \in {"Forward", "Backward"}, duration \in SeekDurations}
    \cup {MediaControlEvent("SetPosition", "", pos, "") : pos \in SetPositions}
    \cup {MediaControlEvent("SetVolume", "", vol, "") : vol \in Volumes}

LocalEvents ==
    {MediaControlEvent("Raise", "", 0, ""), MediaControlEvent("Quit", "", 0, "")}

OtherEvents == {MediaControlEvent("OpenUri", "", 0, uri) : uri \in Uris}

MediaControlEvents == PayloadlessEvents \cup PayloadEvents \cup LocalEvents \cup OtherEvents

\* Mutant: the duration is passed on in microseconds.
as_micros(duration) == duration

\* Duration::as_millis
as_millis(duration) == duration \div 1000

\* `as i64` / `as u64` of a millisecond count (every count of the model fits)
AsI64(n) == n
AsU64(n) == n

\* app_handle.emit(event, payload): a string payload in `action`, a number in
\* `value`
Emit(event, action, value) == [event |-> event, action |-> action, value |-> value]

\* What one callback does
Outcome(emits, raise, exit) == [emits |-> emits, raise |-> raise, exit |-> exit]

ControlAction(action) ==
    Outcome(<<Emit("media-control-event", action, 0)>>, FALSE, None)

\* Mutant: Toggle is forwarded as play.
translate_toggle_as_play(event) ==
    IF event.kind = "Play" THEN ControlAction("play")
    ELSE IF event.kind = "Pause" THEN ControlAction("pause")
    ELSE IF event.kind = "Toggle" THEN ControlAction("play")
    ELSE IF event.kind = "Next" THEN ControlAction("next_track")
    ELSE IF event.kind = "Previous" THEN ControlAction("previous_track")
    ELSE IF event.kind = "Stop" THEN ControlAction("stop")
    ELSE IF event.kind = "Seek" /\ event.direction = "Forward"
    THEN ControlAction("seek_forward")
    ELSE IF event.kind = "Seek" /\ event.direction = "Backward"
    THEN ControlAction("seek_backward")
    ELSE IF event.kind = "SeekBy"
    THEN LET ms == AsI64(as_millis(event.value))
             signed_ms == IF event.direction = "Forward" THEN ms ELSE -ms
         IN  Outcome(<<Emit("media-seek-by", "", signed_ms)>>, FALSE, None)
    ELSE IF event.kind = "SetPosition"
    THEN LET ms == AsU64(as_millis(event.value))
         IN  Outcome(<<Emit("media-set-position", "", ms)>>, FALSE, None)
    ELSE IF event.kind = "SetVolume"
    THEN Outcome(<<Emit("media-set-volume", "", event.value)>>, FALSE, None)
    ELSE IF event.kind = "Raise" THEN Outcome(<<>>, TRUE, None)
    ELSE IF event.kind = "Quit" THEN Outcome(<<>>, FALSE, Some(0))
    ELSE Outcome(<<>>, FALSE, None)

\* Mutant: an event with payload is forwarded as its typed event and then
\* falls through to the generic one.
translate_payload_falls_through(event) ==
    IF event.kind = "Play" THEN ControlAction("play")
    ELSE IF event.kind = "Pause" THEN ControlAction("pause")
    ELSE IF event.kind = "Toggle" THEN ControlAction("play_pause")
    ELSE IF event.kind = "Next" THEN ControlAction("next_track")
    ELSE IF event.kind = "Previous" THEN ControlAction("previous_track")
    ELSE IF event.kind = "Stop" THEN ControlAction("stop")
    ELSE IF event.kind = "Seek" /\ event.direction = "Forward"
    THEN ControlAction("seek_forward")
    ELSE IF event.kind = "Seek" /\ event.direction = "Backward"
    THEN ControlAction("seek_backward")
    ELSE IF event.kind = "SeekBy"
    THEN LET ms == AsI64(as_millis(event.value))
             signed_ms == IF event.direction = "Forward" THEN ms ELSE -ms
         IN  Outcome(<<Emit("media-seek-by", "", signed_ms),
                       Emit("media-control-event", "seek_by", 0)>>, FALSE, None)
    ELSE IF event.kind = "SetPosition"
    THEN LET ms == AsU64(as_millis(event.value))
         IN  Outcome(<<Emit("media-set-position", "", ms),
                       Emit("media-control-event", "set_position", 0)>>, FALSE, None)
    ELSE IF event.kind = "SetVolume"
    THEN Outcome(<<Emit("media-set-volume", "", event.value),
                   Emit("media-control-event", "set_volume", 0)>>, FALSE, None)
    ELSE IF event.kind = "Raise" THEN Outcome(<<>>, TRUE, None)
    ELSE IF event.kind = "Quit" THEN Outcome(<<>>, FALSE, Some(0))
    ELSE Outcome(<<>>, FALSE, None)

\* Mutant: Raise, Quit and the events outside the set are forwarded as well.
translate_forwards_everything(event) ==
    IF event.kind = "Play" THEN ControlAction("play")
    ELSE IF event.kind = "Pause" THEN ControlAction("pause")
    ELSE IF event.kind = "Toggle" THEN ControlAction("play_pause")
    ELSE IF event.kind = "Next" THEN ControlAction("next_track")
    ELSE IF event.kind = "Previous" THEN ControlAction("previous_track")
    ELSE IF event.kind = "Stop" THEN ControlAction("stop")
    ELSE IF event.kind = "Seek" /\ event.direction = "Forward"
    THEN ControlAction("seek_forward")
    ELSE IF event.kind = "Seek" /\ event.direction = "Backward"
    THEN ControlAction("seek_backward")
    ELSE IF event.kind = "SeekBy"
    THEN LET ms == AsI64(as_millis(event.value))
             signed_ms == IF event.direction = "Forward" THEN ms ELSE -ms
         IN  Outcome(<<Emit("media-seek-by", "", signed_ms)>>, FALSE, None)
    ELSE IF event.kind = "SetPosition"
    THEN LET ms == AsU64(as_millis(event.value))
         IN  Outcome(<<Emit("media-set-position", "", ms)>>, FALSE, None)
    ELSE IF event.kind = "SetVolume"
    THEN Outcome(<<Emit("media-set-volume", "", event.value)>>, FALSE, None)
    ELSE IF event.kind = "Raise"
    THEN Outcome(<<Emit("media-control-event", "raise", 0)>>, TRUE, None)
    ELSE IF event.kind = "Quit"
    THEN Outcome(<<Emit("media-control-event", "quit", 0)>>, FALSE, Some(0))
    ELSE Outcome(<<Emit("media-control-event", "unknown", 0)>>, FALSE, None)

\* The `match &event` of the callback and what follows it
translate(event) ==
    IF event.kind = "Play" THEN ControlAction("play")
    ELSE IF event.kind = "Pause" THEN ControlAction("pause")
    ELSE IF event.kind = "Toggle" THEN ControlAction("play_pause")
    ELSE IF event.kind = "Next" THEN ControlAction("next_track")
    ELSE IF event.kind = "Previous" THEN ControlAction("previous_track")
    ELSE IF event.kind = "Stop" THEN ControlAction("stop")
    ELSE IF event.kind = "Seek" /\ event.direction = "Forward"
    THEN ControlAction("seek_forward")
    ELSE IF event.kind = "Seek" /\ event.direction = "Backward"
    THEN ControlAction("seek_backward")
    ELSE IF event.kind = "SeekBy"
    THEN LET ms == AsI64(as_millis(event.value))
             signed_ms == IF event.direction = "Forward" THEN ms ELSE -ms
         IN  Outcome(<<Emit("media-seek-by", "", signed_ms)>>, FALSE, None)
    ELSE IF event.kind = "SetPosition"
    THEN LET ms == AsU64(as_millis(event.value))
         IN  Outcome(<<Emit("media-set-position", "", ms)>>, FALSE, None)
    ELSE IF event.kind = "SetVolume"
    THEN Outcome(<<Emit("media-set-volume", "", event.value)>>, FALSE, None)
    ELSE IF event.kind = "Raise" THEN Outcome(<<>>, TRUE, None)
    ELSE IF event.kind = "Quit" THEN Outcome(<<>>, FALSE, Some(0))
    ELSE Outcome(<<>>, FALSE, None)

NoEvent == MediaControlEvent("", "", 0, "")

EventInit ==
    /\ minimized = FALSE
    /\ focused = TRUE
    /\ emitted = <<>>
    /\ exit_code = None
    /\ last_event = NoEvent
    /\ event_bit = FALSE

\* Mutant: the callback keeps the playing flag up to date by itself.
on_media_control_event_tracks_playing(event) ==
    /\ phase = "running"
    /\ controls /= None
    /\ LET o == translate(event) IN
       /\ emitted' = o.emits
       /\ minimized' = IF o.raise THEN FALSE ELSE minimized
       /\ focused' = IF o.raise THEN TRUE ELSE focused
       /\ exit_code' = o.exit
       /\ phase' = IF o.exit /= None THEN "exited" ELSE phase
    /\ is_playing' = IF event.kind = "Play" THEN TRUE
                     ELSE IF event.kind \in {"Pause", "Stop"} THEN FALSE
                     ELSE is_playing
    /\ last_event' = event
    /\ event_bit' = ~event_bit
    /\ last_geom' = IF phase' = "exited" THEN NoOp("exit") ELSE last_geom
    /\ UNCHANGED <<store, win>>
    /\ UNCHANGED <<controls, cached_title, cached_artist, cached_album,
                   cached_cover_url, cached_duration_ms, os_metadata,
                   os_playback, fold, only_metadata_calls, last_metadata_call,
                   stop_since_metadata, last_call, call_hist>>

\* The callback, called by the OS session with one native event
on_media_control_event(event) ==
    /\ phase = "running"
    /\ controls /= None
    /\ LET o == translate(event) IN
       /\ emitted' = o.emits
       /\ minimized' = IF o.raise THEN FALSE ELSE minimized
       /\ focused' = IF o.raise THEN TRUE ELSE focused
       /\ exit_code' = o.exit
       /\ phase' = IF o.exit /= None THEN "exited" ELSE phase
    /\ last_event' = event
    /\ event_bit' = ~event_bit
    /\ last_geom' = IF phase' = "exited" THEN NoOp("exit") ELSE last_geom
    /\ UNCHANGED <<store, win>>
    /\ UNCHANGED media_vars

\* The user minimizes the main window, or it loses or gains the focus
WindowMinimized ==
    /\ phase = "running"
    /\ ~minimized
    /\ minimized' = TRUE
    /\ focused' = FALSE
    /\ last_event' = NoEvent
    /\ UNCHANGED <<emitted, exit_code, event_bit>>

WindowFocusChanged(focus) ==
    /\ phase = "running"
    /\ ~minimized
    /\ focused /= focus
    /\ focused' = focus
    /\ last_event' = NoEvent
    /\ UNCHANGED <<minimized, emitted, exit_code, event_bit>>

\* The notify calls the frontend makes between the callbacks
EventTitles == {"T1"}

\* A step of the frontend: no callback ran
NoCallback ==
    /\ phase = "running"
    /\ last_event' = NoEvent
    /\ UNCHANGED <<minimized, focused, emitted, exit_code, event_bit>>
    /\ UNCHANGED <<geometry_vars, debounce_vars, probe_vars, rest_vars>>

EventsNext ==
    \/ \E event \in MediaControlEvents :
          on_media_control_event(event) /\ UNCHANGED <<debounce_vars, probe_vars, rest_vars>>
    \/ WindowMinimized
          /\ UNCHANGED <<media_vars, geometry_vars, debounce_vars, probe_vars, rest_vars>>
    \/ \E focus \in BOOLEAN :
          WindowFocusChanged(focus)
          /\ UNCHANGED <<media_vars, geometry_vars, debounce_vars, probe_vars, rest_vars>>
    \/ \E playing \in BOOLEAN :
          media_notify_playback_state(playing) /\ NoCallback
    \/ \E title \in EventTitles, duration_ms \in Opt({1000}) :
          media_notify_metadata(title, None, None, None, duration_ms) /\ NoCallback
    \/ media_notify_stop /\ NoCallback
    \/ \E position_ms \in Positions :
          media_notify_position(position_ms) /\ NoCallback

\* ------------------------------------------------------------------------
\* Windows taskbar progress: the COM object and the process-wide slot
\* ------------------------------------------------------------------------
ProgressValues == { <<0, 100>>, <<50, 100>>, <<100, 100>> }
TaskbarStates == {"normal", "paused", "error"}

\* No ITaskbarList3 yet: CoCreateInstance not called, nothing shown
NoCom ==
    [requested |-> FALSE, created |-> FALSE, releases |-> 0,
     progress |-> None, flag |-> None]

TaskbarInit ==
    /\ taskbar_slot = None
    /\ com = NoCom

\* impl Drop for TaskbarProgress: one Release on the interface
drop(c) == [c EXCEPT !.releases = @ + 1]

\* TaskbarProgress::new: the owner, if any, and the COM object afterwards
TaskbarProgress_new(c, create_ok, init_ok) ==
    LET asked == [c EXCEPT !.requested = TRUE] IN
    IF ~create_ok
    THEN [owner |-> None, com |-> asked]
    ELSE IF ~init_ok
         THEN [owner |-> None,
               com |-> [asked EXCEPT !.created = TRUE, !.releases = @ + 1]]
         ELSE [owner |-> Some("TaskbarProgress"),
               com |-> [asked EXCEPT !.created = TRUE]]

\* run, setup: on Windows with a Win32 window handle the owner returned by
\* TaskbarProgress::new is assigned to TASKBAR (an assignment drops the value
\* that was there); otherwise TASKBAR stays None
taskbar_init(win32, create_ok, init_ok) ==
    /\ phase = "running"
    /\ ~com.requested
    /\ \A t \in DOMAIN threads : threads[t].pc = "idle"
    /\ IF win32
       THEN LET r == TaskbarProgress_new(com, create_ok, init_ok) IN
            IF r.owner /= None
            THEN /\ taskbar_slot' = r.owner
                 /\ com' = IF taskbar_slot /= None THEN drop(r.com) ELSE r.com
            ELSE /\ com' = r.com
                 /\ UNCHANGED taskbar_slot
       ELSE /\ com' = [com EXCEPT !.requested = TRUE]
            /\ UNCHANGED taskbar_slot
    /\ UNCHANGED <<locks, inside, threads>>

\* set_state: the flag for a state name
progress_flag(state) ==
    IF state = "normal" THEN "TBPF_NORMAL"
    ELSE IF state = "paused" THEN "TBPF_PAUSED"
    ELSE "TBPF_NOPROGRESS"

\* ------------------------------------------------------------------------
\* Commands run by concurrent threads, one statement (or one critical
\* section entry) per step.  Taking a mutex is merged with the statement
\* after it and dropping the guard with the statement before it: the first
\* commutes with every later step of another thread, the second with every
\* earlier one.  A cache field's own mutex is taken and dropped within one
\* statement, so such a statement is one step.
\* ------------------------------------------------------------------------
MaxThreads == 2
ThreadIds == 1..MaxThreads

RaceTitles == {"T1"}
RaceDurations == {1000}
RacePositions == {5000}
RaceProgress == { <<50, 100>> }
RaceStates == {"paused"}

IdleThread ==
    [pc |-> "idle", title |-> "", artist |-> None, album |-> None,
     cover_url |-> None, duration_ms |-> None, playing |-> FALSE]

ThreadInit ==
    /\ locks = [TASKBAR |-> None, controls |-> None, debounce_timer |-> None]
    /\ inside = [taskbar |-> {}, controls |-> {}]
    /\ threads = [t \in ThreadIds |-> IdleThread]
    /\ task_pc = <<>>

media_history ==
    <<fold, only_metadata_calls, last_metadata_call, stop_since_metadata,
      last_call, call_hist>>

\* Commands arrive once setup has run, and until the process exits
ThreadAt(t, pc) ==
    /\ phase = "running"
    /\ com.requested
    /\ threads[t].pc = pc

Goto(t, rec) == threads' = [threads EXCEPT ![t] = rec]

Return(t) == threads' = [threads EXCEPT ![t] = IdleThread]

\* Mutant: a mutex that lets a second thread in.
free_always(m) == TRUE

\* Mutex::lock returns only when nobody holds the mutex
free(m) == locks[m] = None

lock(m, who) == free(m) /\ locks' = [locks EXCEPT ![m] = Some(who)]

\* The guard goes out of scope
unlock(m, who) == locks' = [locks EXCEPT ![m] = IF @ = Some(who) THEN None ELSE @]

enter(h, t) == inside' = [inside EXCEPT ![h] = @ \cup {t}]

leave(h, t) == inside' = [inside EXCEPT ![h] = @ \ {t}]

\* ---- taskbar_set_progress / taskbar_set_state ----
\* TASKBAR.lock(), and with an owner in the slot the call on the interface
taskbar_set_progress(t, value) ==
    /\ ThreadAt(t, "idle")
    /\ IF taskbar_slot /= None
       THEN /\ lock("TASKBAR", t)
            /\ enter("taskbar", t)
            /\ com' = [com EXCEPT !.progress = Some(value)]
            /\ Goto(t, [IdleThread EXCEPT !.pc = "set_progress"])
       ELSE /\ free("TASKBAR")
            /\ UNCHANGED <<locks, inside, com, threads>>
    /\ UNCHANGED <<taskbar_slot, media_vars>>

taskbar_set_state(t, state) ==
    /\ ThreadAt(t, "idle")
    /\ IF taskbar_slot /= None
       THEN /\ lock("TASKBAR", t)
            /\ enter("taskbar", t)
            /\ com' = [com EXCEPT !.flag = Some(progress_flag(state))]
            /\ Goto(t, [IdleThread EXCEPT !.pc = "set_state"])
       ELSE /\ free("TASKBAR")
            /\ UNCHANGED <<locks, inside, com, threads>>
    /\ UNCHANGED <<taskbar_slot, media_vars>>

\* The call on the interface returns and the guard on TASKBAR is dropped
taskbar_return(t) ==
    /\ phase = "running"
    /\ threads[t].pc \in {"set_progress", "set_state"}
    /\ leave("taskbar", t)
    /\ unlock("TASKBAR", t)
    /\ Return(t)
    /\ UNCHANGED <<taskbar_vars, media_vars>>

\* ---- the critical section on state.controls, shared by the notify calls ----
\* if let Ok(mut guard) = state.controls.lock(): without a session the guard
\* is dropped at once and the command returns
controls_section(t, pc) ==
    IF controls /= None
    THEN /\ lock("controls", t)
         /\ enter("controls", t)
         /\ Goto(t, [IdleThread EXCEPT !.pc = pc])
    ELSE /\ free("controls")
         /\ Return(t)
         /\ UNCHANGED <<locks, inside>>

\* The call on the session returns and the guard on controls is dropped
controls_return(t) ==
    /\ phase = "running"
    /\ threads[t].pc = "controls_inside"
    /\ leave("controls", t)
    /\ unlock("controls", t)
    /\ Return(t)
    /\ UNCHANGED <<media_vars, taskbar_vars>>

\* ---- media_notify_playback_state ----
playback_state_store(t, playing) ==
    /\ ThreadAt(t, "idle")
    /\ is_playing' = playing
    /\ Goto(t, [IdleThread EXCEPT !.pc = "playback_state_lock", !.playing = playing])
    /\ UNCHANGED <<controls, cached_title, cached_artist, cached_album,
                   cached_cover_url, cached_duration_ms, os_metadata,
                   os_playback, media_history, taskbar_vars, locks, inside>>

playback_state_set_playback(t) ==
    /\ ThreadAt(t, "playback_state_lock")
    /\ controls_section(t, "controls_inside")
    /\ set_playback(IF threads[t].playing
                    THEN [state |-> "Playing", progress |-> None]
                    ELSE [state |-> "Paused", progress |-> None])
    /\ UNCHANGED <<controls, is_playing, cached_title, cached_artist,
                   cached_album, cached_cover_url, cached_duration_ms,
                   os_metadata, media_history, taskbar_vars>>

\* ---- media_notify_stop ----
stop_store(t) ==
    /\ ThreadAt(t, "idle")
    /\ is_playing' = FALSE
    /\ Goto(t, [IdleThread EXCEPT !.pc = "stop_lock"])
    /\ UNCHANGED <<controls, cached_title, cached_artist, cached_album,
                   cached_cover_url, cached_duration_ms, os_metadata,
                   os_playback, media_history, taskbar_vars, locks, inside>>

stop_set_playback(t) ==
    /\ ThreadAt(t, "stop_lock")
    /\ controls_section(t, "controls_inside")
    /\ set_playback([state |-> "Stopped", progress |-> None])
    /\ UNCHANGED <<controls, is_playing, cached_title, cached_artist,
                   cached_album, cached_cover_url, cached_duration_ms,
                   os_metadata, media_history, taskbar_vars>>

\* ---- media_notify_position ----
\* The flag is loaded inside the critical section, right before the call
position_set_playback(t, position_ms) ==
    /\ ThreadAt(t, "idle")
    /\ controls_section(t, "controls_inside")
    /\ set_playback(IF is_playing
                    THEN [state |-> "Playing", progress |-> Some(position_ms)]
                    ELSE [state |-> "Paused", progress |-> Some(position_ms)])
    /\ UNCHANGED <<controls, is_playing, cached_title, cached_artist,
                   cached_album, cached_cover_url, cached_duration_ms,
                   os_metadata, media_history, taskbar_vars>>

\* ---- media_notify_metadata ----
\* The five cache writes, one statement per step, in the order of the code
metadata_title(t, title, artist, album, cover_url, duration_ms) ==
    /\ ThreadAt(t, "idle")
    /\ cached_title' = title
    /\ Goto(t, [pc |-> "metadata_artist", title |-> title, artist |-> artist,
                album |-> album, cover_url |-> cover_url,
                duration_ms |-> duration_ms, playing |-> FALSE])
    /\ UNCHANGED <<controls, is_playing, cached_artist, cached_album,
                   cached_cover_url, cached_duration_ms, os_metadata,
                   os_playback, media_history, taskbar_vars, locks, inside>>

metadata_store(t) ==
    LET pc == threads[t].pc IN
    /\ phase = "running"
    /\ pc \in {"metadata_artist", "metadata_album", "metadata_cover_url",
               "metadata_duration_ms"}
    /\ cached_artist' =
          IF pc = "metadata_artist" THEN threads[t].artist ELSE cached_artist
    /\ cached_album' =
          IF pc = "metadata_album" THEN threads[t].album ELSE cached_album
    /\ cached_cover_url' =
          IF pc = "metadata_cover_url" THEN threads[t].cover_url ELSE cached_cover_url
    /\ cached_duration_ms' =
          IF pc = "metadata_duration_ms" THEN threads[t].duration_ms
          ELSE cached_duration_ms
    /\ Goto(t, [threads[t] EXCEPT !.pc =
                   IF pc = "metadata_artist" THEN "metadata_album"
                   ELSE IF pc = "metadata_album" THEN "metadata_cover_url"
                   ELSE IF pc = "metadata_cover_url" THEN "metadata_duration_ms"
                   ELSE "metadata_lock"])
    /\ UNCHANGED <<controls, is_playing, cached_title, os_metadata,
                   os_playback, media_history, taskbar_vars, locks, inside>>

metadata_set_metadata(t) ==
    /\ ThreadAt(t, "metadata_lock")
    /\ controls_section(t, "controls_inside")
    /\ set_metadata(MediaMetadata(threads[t].title, threads[t].artist,
                                  threads[t].album, threads[t].cover_url,
                                  threads[t].duration_ms))
    /\ UNCHANGED <<controls, is_playing, cached_title, cached_artist,
                   cached_album, cached_cover_url, cached_duration_ms,
                   os_playback, media_history, taskbar_vars>>

\* ---- media_notify_duration ----
duration_store(t, duration_ms) ==
    /\ ThreadAt(t, "idle")
    /\ cached_duration_ms' = Some(duration_ms)
    /\ Goto(t, [IdleThread EXCEPT !.pc = "duration_title",
                                  !.duration_ms = Some(duration_ms)])
    /\ UNCHANGED <<controls, is_playing, cached_title, cached_artist,
                   cached_album, cached_cover_url, os_metadata,
                   os_playback, media_history, taskbar_vars, locks, inside>>

\* The four clones out of the cache, one statement per step
duration_load(t) ==
    LET pc == threads[t].pc IN
    /\ phase = "running"
    /\ pc \in {"duration_title", "duration_artist", "duration_album",
               "duration_cover_url"}
    /\ Goto(t, IF pc = "duration_title"
               THEN [threads[t] EXCEPT !.pc = "duration_artist",
                                       !.title = cached_title]
               ELSE IF pc = "duration_artist"
               THEN [threads[t] EXCEPT !.pc = "duration_album",
                                       !.artist = cached_artist]
               ELSE IF pc = "duration_album"
               THEN [threads[t] EXCEPT !.pc = "duration_cover_url",
                                       !.album = cached_album]
               ELSE [threads[t] EXCEPT !.pc = "duration_lock",
                                       !.cover_url = cached_cover_url])
    /\ UNCHANGED <<media_vars, taskbar_vars, locks, inside>>

duration_set_metadata(t) ==
    /\ ThreadAt(t, "duration_lock")
    /\ controls_section(t, "controls_inside")
    /\ set_metadata(MediaMetadata(threads[t].title, threads[t].artist,
                                  threads[t].album, threads[t].cover_url,
                                  threads[t].duration_ms))
    /\ UNCHANGED <<controls, is_playing, cached_title, cached_artist,
                   cached_album, cached_cover_url, cached_duration_ms,
                   os_playback, media_history, taskbar_vars>>

\* What a step of a command thread leaves alone
ThreadFrame ==
    <<geometry_vars, debounce_vars, probe_vars, event_vars, task_pc, url_vars,
      more_vars>>

\* The taskbar from setup to the exit of the process
TaskbarNext ==
    \/ \E win32, create_ok, init_ok \in BOOLEAN :
          taskbar_init(win32, create_ok, init_ok)
          /\ UNCHANGED <<media_vars, task_pc, url_vars, more_vars>>
          /\ UNCHANGED <<geometry_vars, debounce_vars, probe_vars, event_vars>>
    \/ system_exit
          /\ UNCHANGED <<media_vars, debounce_vars, probe_vars, event_vars, rest_vars>>
    \/ \E t \in ThreadIds, value \in ProgressValues :
          taskbar_set_progress(t, value) /\ UNCHANGED ThreadFrame
    \/ \E t \in ThreadIds, state \in TaskbarStates :
          taskbar_set_state(t, state) /\ UNCHANGED ThreadFrame
    \/ \E t \in ThreadIds : taskbar_return(t) /\ UNCHANGED ThreadFrame

\* The taskbar and media-session commands called concurrently
ThreadsNext ==
    \/ \E win32 \in BOOLEAN :
          taskbar_init(win32, TRUE, TRUE)
          /\ UNCHANGED <<media_vars, task_pc, url_vars, more_vars>>
          /\ UNCHANGED <<geometry_vars, debounce_vars, probe_vars, event_vars>>
    \/ \E t \in ThreadIds, value \in RaceProgress :
          taskbar_set_progress(t, value) /\ UNCHANGED ThreadFrame
    \/ \E t \in ThreadIds, state \in RaceStates :
          taskbar_set_state(t, state) /\ UNCHANGED ThreadFrame
    \/ \E t \in ThreadIds : taskbar_return(t) /\ UNCHANGED ThreadFrame
    \/ \E t \in ThreadIds, playing \in BOOLEAN :
          playback_state_store(t, playing) /\ UNCHANGED ThreadFrame
    \/ \E t \in ThreadIds : playback_state_set_playback(t) /\ UNCHANGED ThreadFrame
    \/ \E t \in ThreadIds : stop_store(t) /\ UNCHANGED ThreadFrame
    \/ \E t \in ThreadIds : stop_set_playback(t) /\ UNCHANGED ThreadFrame
    \/ \E t \in ThreadIds, position_ms \in RacePositions :
          position_set_playback(t, position_ms) /\ UNCHANGED ThreadFrame
    \/ \E t \in ThreadIds, title \in RaceTitles :
          metadata_title(t, title, None, None, None, None) /\ UNCHANGED ThreadFrame
    \/ \E t \in ThreadIds : metadata_store(t) /\ UNCHANGED ThreadFrame
    \/ \E t \in ThreadIds : metadata_set_metadata(t) /\ UNCHANGED ThreadFrame
    \/ \E t \in ThreadIds, duration_ms \in RaceDurations :
          duration_store(t, duration_ms) /\ UNCHANGED ThreadFrame
    \/ \E t \in ThreadIds : duration_load(t) /\ UNCHANGED ThreadFrame
    \/ \E t \in ThreadIds : duration_set_metadata(t) /\ UNCHANGED ThreadFrame
    \/ \E t \in ThreadIds : controls_return(t) /\ UNCHANGED ThreadFrame

\* ------------------------------------------------------------------------
\* The debounce task and the probe between their suspension points
\* ------------------------------------------------------------------------
\* The handler of on_window_event runs to its end on the caller's thread: for
\* Moved / Resized it takes the timer's mutex, sets the timer, spawns the
\* task (which starts in its sleep) and drops the guard
window_event_handler(event) ==
    /\ on_window_event(event)
    /\ IF event \in {"Moved", "Resized"}
       THEN /\ free("debounce_timer")
            /\ task_pc' = [id \in DOMAIN tasks' |->
                              IF id \in DOMAIN task_pc THEN task_pc[id] ELSE "sleep"]
       ELSE UNCHANGED task_pc
    /\ UNCHANGED locks

\* tokio::time::sleep is over; the task takes the timer's mutex
task_wake(id) ==
    /\ phase = "running"
    /\ id \in DOMAIN task_pc
    /\ task_pc[id] = "sleep"
    /\ now >= tasks[id]
    /\ lock("debounce_timer", id)
    /\ task_pc' = [task_pc EXCEPT ![id] = "check"]
    /\ UNCHANGED <<debounce_vars, geometry_vars>>

\* Mutant: the guard on the timer lives until the end of the task.
task_check_keeps_guard(id) ==
    /\ phase = "running"
    /\ id \in DOMAIN task_pc
    /\ task_pc[id] = "check"
    /\ IF should_run
       THEN /\ task_pc' = [task_pc EXCEPT ![id] = "save"]
            /\ UNCHANGED <<tasks, checks, locks>>
       ELSE /\ unlock("debounce_timer", id)
            /\ task_pc' = [i \in DOMAIN task_pc \ {id} |-> task_pc[i]]
            /\ tasks' = [i \in DOMAIN tasks \ {id} |-> tasks[i]]
            /\ checks' = [checks EXCEPT !.newest_not_due = @ \/ id = spawned]
    /\ UNCHANGED <<now, debounce_timer, spawned, burst_ok, geometry_vars>>

\* The block computing should_run: the guard is dropped at its end, before
\* the save is awaited; a task that does not save ends here
task_check(id) ==
    /\ phase = "running"
    /\ id \in DOMAIN task_pc
    /\ task_pc[id] = "check"
    /\ unlock("debounce_timer", id)
    /\ IF should_run
       THEN /\ task_pc' = [task_pc EXCEPT ![id] = "save"]
            /\ UNCHANGED <<tasks, checks>>
       ELSE /\ task_pc' = [i \in DOMAIN task_pc \ {id} |-> task_pc[i]]
            /\ tasks' = [i \in DOMAIN tasks \ {id} |-> tasks[i]]
            /\ checks' = [checks EXCEPT !.newest_not_due = @ \/ id = spawned]
    /\ UNCHANGED <<now, debounce_timer, spawned, burst_ok, geometry_vars>>

\* window_save_geometry(app_h).await completes; its result is dropped
task_save(id, q) ==
    /\ phase = "running"
    /\ id \in DOMAIN task_pc
    /\ task_pc[id] = "save"
    /\ LET r == window_save_geometry(store, win, q)
           o == Observed("debounce", store, win, q, r.result) IN
       /\ store' = r.store
       /\ checks' =
             IF o.fullscreen \/ r.result /= "Ok"
             THEN [checks EXCEPT !.blocked = TRUE]
             ELSE [checks EXCEPT !.commits = @ + 1,
                                 !.stale_commit = @ \/ id /= spawned]
    /\ unlock("debounce_timer", id)
    /\ task_pc' = [i \in DOMAIN task_pc \ {id} |-> task_pc[i]]
    /\ tasks' = [i \in DOMAIN tasks \ {id} |-> tasks[i]]
    /\ last_geom' = NoOp("task")
    /\ UNCHANGED <<now, debounce_timer, spawned, burst_ok, win, phase>>

\* What a step of the debouncer leaves alone
SuspendFrame ==
    <<media_vars, probe_vars, event_vars, taskbar_vars, inside, threads, url_vars,
      more_vars>>

\* What a step of the probe leaves alone
ProbeFrame ==
    <<media_vars, geometry_vars, debounce_vars, event_vars, rest_vars>>

\* The first probe of the process, answered by no connection or by the
\* identity document
FirstProbe == 1
Answers(target) ==
    {r \in Responses(target) :
        ~r.connected \/ (is_success(r.status) /\ r.body = IdentityDocument)}

\* The window answers every query of the save
AllAnswered ==
    [fullscreen_ok |-> TRUE, maximized_ok |-> TRUE, position_ok |-> TRUE,
     size_ok |-> TRUE]

\* The debouncer with its task statement by statement, next to one probe
SuspendNext ==
    \/ Tick /\ UNCHANGED <<SuspendFrame, locks, task_pc>>
    \/ \E event \in WindowEvents :
          window_event_handler(event) /\ UNCHANGED SuspendFrame
    \/ \E id \in TaskIds : task_wake(id) /\ UNCHANGED SuspendFrame
    \/ \E id \in TaskIds : task_check(id) /\ UNCHANGED SuspendFrame
    \/ \E id \in TaskIds : task_save(id, AllAnswered) /\ UNCHANGED SuspendFrame
    \/ \E url \in Urls : probe_start(FirstProbe, url) /\ UNCHANGED ProbeFrame
    \/ \E built \in BOOLEAN : probe_build(FirstProbe, built) /\ UNCHANGED ProbeFrame
    \/ probe_check_before_request(FirstProbe) /\ UNCHANGED ProbeFrame
    \/ /\ probes[FirstProbe].pc = "await"
       /\ \E r \in Answers(info_url(probes[FirstProbe].url[1])) :
             probe_response(FirstProbe, r) /\ UNCHANGED ProbeFrame
    \/ probe_check_after_response(FirstProbe) /\ UNCHANGED ProbeFrame
    \/ probe_read_body(FirstProbe) /\ UNCHANGED ProbeFrame
    \/ cancel_server_connectivity /\ UNCHANGED ProbeFrame

\* ------------------------------------------------------------------------
\* The request target of the probe for any url
\* ------------------------------------------------------------------------
MaxUrlLen == 4
UrlChars == {"h", ":", "/"}

\* The url argument, character by character
UrlStrings == UNION {[1..n -> UrlChars] : n \in 0..MaxUrlLen}

\* check_server_connectivity up to client.get(&info_url)
probe_target(url) ==
    /\ url_arg' = Some(url)
    /\ requested' = Some(info_url(url))

UrlNext ==
    \E url \in UrlStrings :
        probe_target(url)
        /\ UNCHANGED <<media_vars, geometry_vars, debounce_vars, probe_vars,
                       event_vars, taskbar_vars, thread_vars, more_vars>>

\* ------------------------------------------------------------------------
\* Geometry saves running concurrently (window_save_geometry, lib.rs 322-350)
\* ------------------------------------------------------------------------
\* Calls of window_save_geometry, from debounce tasks or from the frontend;
\* each runs on a thread of the async runtime, statement by statement.
MaxSaves == 2
SaveIds == 1..MaxSaves

\* Placements the window takes while the saves are explored
SavePlacements == { DefaultPlacement, [x |-> 0, y |-> 0, w |-> 200, h |-> 150] }

SavedKeys == {KeyX, KeyY, KeyW, KeyH, KeyMaximized}

IdleSaver == [pc |-> "idle", x |-> 0, y |-> 0, w |-> 0, h |-> 0]

SaveInit ==
    /\ savers = [id \in SaveIds |-> IdleSaver]
    /\ geom_writer = [k \in SavedKeys |-> 0]

SaverAt(id, pc) == phase = "running" /\ savers[id].pc = pc

SaverGoto(id, pc) == savers' = [savers EXCEPT ![id].pc = pc]

\* 324-331: the window, the store, and the fullscreen check
save_is_fullscreen(id) ==
    /\ SaverAt(id, "idle")
    /\ SaverGoto(id, IF unwrap_or(is_fullscreen(win, AllAnswered), FALSE)
                     THEN "done" ELSE "is_maximized")
    /\ UNCHANGED <<geometry_vars, geom_writer>>

\* 333-334: let maximized = win.is_maximized().unwrap_or(false)
save_is_maximized(id) ==
    /\ SaverAt(id, "is_maximized")
    /\ SaverGoto(id, IF unwrap_or(is_maximized(win, AllAnswered), FALSE)
                     THEN "set_maximized_true" ELSE "outer_position")
    /\ UNCHANGED <<geometry_vars, geom_writer>>

\* 339: let pos = win.outer_position()?
save_outer_position(id) ==
    /\ SaverAt(id, "outer_position")
    /\ savers' = [savers EXCEPT ![id].pc = "outer_size",
                                ![id].x = win.x, ![id].y = win.y]
    /\ UNCHANGED <<geometry_vars, geom_writer>>

\* 340: let size = win.outer_size()?
save_outer_size(id) ==
    /\ SaverAt(id, "outer_size")
    /\ savers' = [savers EXCEPT ![id].pc = "set_x",
                                ![id].w = win.w, ![id].h = win.h]
    /\ UNCHANGED <<geometry_vars, geom_writer>>

\* One store.set(key, value) of the call, and the statement it goes on to
save_store_set(id, pc, key, value, next) ==
    /\ SaverAt(id, pc)
    /\ store' = StoreSet(store, key, value)
    /\ geom_writer' = [geom_writer EXCEPT ![key] = id]
    /\ savers' = IF next = "done"
                 THEN [savers EXCEPT ![id] = IdleSaver, ![id].pc = "done"]
                 ELSE [savers EXCEPT ![id].pc = next]
    /\ UNCHANGED <<win, phase, last_geom>>

\* 336 and 341-345: the store.set calls of the two branches; Ok(()) 349
save_set(id) ==
    \/ save_store_set(id, "set_maximized_true", KeyMaximized, TRUE, "done")
    \/ save_store_set(id, "set_x", KeyX, savers[id].x, "set_y")
    \/ save_store_set(id, "set_y", KeyY, savers[id].y, "set_w")
    \/ save_store_set(id, "set_w", KeyW, savers[id].w, "set_h")
    \/ save_store_set(id, "set_h", KeyH, savers[id].h, "set_maximized")
    \/ save_store_set(id, "set_maximized", KeyMaximized, FALSE, "done")

\* What a step of a save or of the window leaves alone
SaveFrame ==
    <<media_vars, debounce_vars, probe_vars, event_vars, taskbar_vars,
      thread_vars, url_vars, settings_vars, power_vars>>

\* The saves next to a user who moves, resizes and maximizes the window
SavesNext ==
    \/ \E id \in SaveIds : save_is_fullscreen(id) /\ UNCHANGED SaveFrame
    \/ \E id \in SaveIds : save_is_maximized(id) /\ UNCHANGED SaveFrame
    \/ \E id \in SaveIds : save_outer_position(id) /\ UNCHANGED SaveFrame
    \/ \E id \in SaveIds : save_outer_size(id) /\ UNCHANGED SaveFrame
    \/ \E id \in SaveIds : save_set(id) /\ UNCHANGED SaveFrame
    \/ \E p \in SavePlacements :
          WindowMovedOrResized(p) /\ UNCHANGED <<SaveFrame, save_vars>>
    \/ \E maximized \in BOOLEAN :
          WindowMaximized(maximized) /\ UNCHANGED <<SaveFrame, save_vars>>

\* ------------------------------------------------------------------------
\* Screensaver inhibition on Linux (mod power, lib.rs 461-528)
\* ------------------------------------------------------------------------
\* The cookies org.freedesktop.ScreenSaver hands out while explored
MaxCookies == 4

PowerInit ==
    /\ INHIBIT_COOKIE = None
    /\ inhibited = {}
    /\ issued = 0
    /\ last_enabled = None
    /\ dbus_failed = FALSE

\* The service's Inhibit: a cookie not in use, active until its UnInhibit
Inhibit == issued + 1

\* The service's UnInhibit(c)
UnInhibit(active, c) == active \ {c}

\* power::set_screensaver_enabled. connected: Connection::session() is Ok;
\* call_ok: call_method is Ok; reply_ok: the reply deserializes to a u32.
set_screensaver_enabled(enabled, connected, call_ok, reply_ok) ==
    IF ~connected
    THEN /\ dbus_failed' = TRUE
         /\ UNCHANGED <<INHIBIT_COOKIE, inhibited, issued>>
    ELSE IF enabled
    THEN \* 476: let cookie = INHIBIT_COOKIE.lock().unwrap().take()
         /\ INHIBIT_COOKIE' = None
         /\ inhibited' = IF INHIBIT_COOKIE /= None /\ call_ok
                         THEN UnInhibit(inhibited, INHIBIT_COOKIE[1])
                         ELSE inhibited
         /\ dbus_failed' = (dbus_failed \/ (INHIBIT_COOKIE /= None /\ ~call_ok))
         /\ UNCHANGED issued
    ELSE IF ~call_ok
    THEN /\ dbus_failed' = TRUE
         /\ UNCHANGED <<INHIBIT_COOKIE, inhibited, issued>>
    ELSE \* 491-506: Inhibit, and the cookie kept if the reply holds one
         /\ issued < MaxCookies
         /\ issued' = issued + 1
         /\ inhibited' = inhibited \cup {Inhibit}
         /\ INHIBIT_COOKIE' = IF reply_ok THEN Some(Inhibit) ELSE INHIBIT_COOKIE
         /\ dbus_failed' = (dbus_failed \/ ~reply_ok)

\* power_set_screensaver_enabled command
power_set_screensaver_enabled(enabled, connected, call_ok, reply_ok) ==
    /\ phase = "running"
    /\ set_screensaver_enabled(enabled, connected, call_ok, reply_ok)
    /\ last_enabled' = Some(enabled)

PowerNext ==
    \E enabled, connected, call_ok, reply_ok \in BOOLEAN :
        power_set_screensaver_enabled(enabled, connected, call_ok, reply_ok)
        /\ UNCHANGED <<media_vars, geometry_vars, debounce_vars, probe_vars,
                       event_vars, taskbar_vars, thread_vars, url_vars,
                       save_vars, settings_vars>>

\* ------------------------------------------------------------------------
\* Settings commands on settings.json (lib.rs 97-107, 157-266)
\* ------------------------------------------------------------------------
\* Strings are sequences of characters; the literals "settings", "state",
\* "geometry", "maximized" and "server_url" stand for their characters in
\* order (no section or key below contains any of them).
Sections == { <<"S">>, <<"S", "x">>, <<"S", ".", "x">> }
SettingKeys == { <<"k">> }
SettingValues == { "a", "b" }
ServerUrls == { "http://srv" }

\* Value::Null
Null == "null"

\* The keys of the other commands in the same store
ServerUrlKey == <<"server_url">>
KeyChars(k) ==
    CASE k = KeyX -> <<"state", ".", "geometry", ".", "x">>
      [] k = KeyY -> <<"state", ".", "geometry", ".", "y">>
      [] k = KeyW -> <<"state", ".", "geometry", ".", "w">>
      [] k = KeyH -> <<"state", ".", "geometry", ".", "h">>
      [] k = KeyMaximized -> <<"state", ".", "geometry", ".", "maximized">>

\* format!("settings.{}.{}", section, key)
store_key(section, key) == <<"settings", ".">> \o section \o <<".">> \o key

\* format!("settings.{}.", section)
section_prefix(section) == <<"settings", ".">> \o section \o <<".">>

\* str::starts_with
starts_with(k, prefix) ==
    /\ Len(k) >= Len(prefix)
    /\ SubSeq(k, 1, Len(prefix)) = prefix

\* str::strip_prefix
strip_prefix(k, prefix) ==
    IF starts_with(k, prefix) THEN Some(SubSeq(k, Len(prefix) + 1, Len(k)))
    ELSE None

\* store.delete(key) for every key of a set
StoreDelete(s, keys) == [k \in DOMAIN s \ keys |-> s[k]]

NoSettingsOp == [op |-> "none", section |-> <<>>, pre |-> EmptyStore]

SettingsInit ==
    /\ settings_store = EmptyStore
    /\ settings_emitted = None
    /\ last_settings = NoSettingsOp

\* settings_get_value: the value returned
settings_get_value(s, section, key) ==
    IF StoreGet(s, store_key(section, key)) = None THEN Null
    ELSE s[store_key(section, key)]

\* settings_get_all: the map returned
settings_get_all(s, section) ==
    LET prefix == section_prefix(section)
        found == {k \in DOMAIN s : strip_prefix(k, prefix) /= None}
    IN  [setting_key \in {strip_prefix(k, prefix)[1] : k \in found} |->
            s[prefix \o setting_key]]

\* save_server_url command
save_server_url(url) ==
    /\ phase = "running"
    /\ settings_store' = StoreSet(settings_store, ServerUrlKey, url)
    /\ settings_emitted' = None
    /\ last_settings' = [NoSettingsOp EXCEPT !.op = "save_server_url"]

\* settings_set_value command
settings_set_value(section, key, value) ==
    /\ phase = "running"
    /\ settings_store' = StoreSet(settings_store, store_key(section, key), value)
    /\ settings_emitted' = Some([event |-> "settings-value-changed",
                                 section |-> section, key |-> key,
                                 value |-> value])
    /\ last_settings' = [NoSettingsOp EXCEPT !.op = "set_value",
                                            !.section = section]

\* settings_delete_section command
settings_delete_section(section) ==
    /\ phase = "running"
    /\ LET prefix == section_prefix(section)
           keys_to_delete == {k \in DOMAIN settings_store : starts_with(k, prefix)}
       IN  settings_store' = StoreDelete(settings_store, keys_to_delete)
    /\ settings_emitted' = None
    /\ last_settings' = [op |-> "delete_section", section |-> section,
                         pre |-> settings_store]

\* window_save_geometry command, its entries seen in the same store
settings_save_geometry ==
    /\ window_save_geometry_command(AllAnswered)
    /\ settings_store' =
          [k \in DOMAIN settings_store \cup {KeyChars(g) : g \in DOMAIN store'} |->
              IF \E g \in DOMAIN store' : KeyChars(g) = k
              THEN store'[CHOOSE g \in DOMAIN store' : KeyChars(g) = k]
              ELSE settings_store[k]]
    /\ settings_emitted' = None
    /\ last_settings' = [NoSettingsOp EXCEPT !.op = "save_geometry"]

\* What a settings command leaves alone
SettingsFrame ==
    <<media_vars, debounce_vars, probe_vars, event_vars, taskbar_vars,
      thread_vars, url_vars, save_vars, power_vars>>

SettingsNext ==
    \/ \E url \in ServerUrls :
          save_server_url(url) /\ UNCHANGED <<SettingsFrame, geometry_vars>>
    \/ \E section \in Sections, key \in SettingKeys, value \in SettingValues :
          settings_set_value(section, key, value)
          /\ UNCHANGED <<SettingsFrame, geometry_vars>>
    \/ \E section \in Sections :
          settings_delete_section(section)
          /\ UNCHANGED <<SettingsFrame, geometry_vars>>
    \/ settings_save_geometry /\ UNCHANGED SettingsFrame

\* ------------------------------------------------------------------------
\* Specifications
\* ------------------------------------------------------------------------
UrlInit ==
    /\ url_arg = None
    /\ requested = None

Init ==
    /\ MediaInit /\ GeometryInit /\ DebounceInit /\ ProbeInit /\ EventInit
    /\ TaskbarInit /\ ThreadInit /\ UrlInit
    /\ SaveInit /\ SettingsInit /\ PowerInit

SpecGeometry == Init /\ [][GeometryNext]_vars

\* The debouncer is explored from a start without --fullscreen and with the
\* media session unavailable (it does not interact with the session)
DebounceSpecInit == Init /\ controls = None /\ ~win.fullscreen

SpecDebounce == DebounceSpecInit /\ [][DebounceNext]_vars

\* The runtime's clock advances and a task whose sleep is over is run
LiveSpecDebounce ==
    /\ DebounceSpecInit
    /\ [][DebounceNext]_vars
    /\ WF_vars(ClockTick)
    /\ \A id \in TaskIds : WF_vars(TaskRuns(id))

SpecMedia == Init /\ [][MediaNext]_vars

\* The probe is explored from one start (it does not interact with the media
\* session or the window)
ProbeSpecInit == Init /\ controls = None /\ ~win.fullscreen

SpecProbe == ProbeSpecInit /\ [][ProbeNext]_vars

\* The callback is attached only when the media session was created
EventsSpecInit == Init /\ controls /= None /\ ~win.fullscreen

SpecEvents == EventsSpecInit /\ [][EventsNext]_vars

\* The taskbar is explored from one start (it does not interact with the
\* media session or the window)
TaskbarSpecInit == Init /\ controls = None /\ ~win.fullscreen

SpecTaskbar == TaskbarSpecInit /\ [][TaskbarNext]_vars

\* The commands run by concurrent threads, with the media session created
ThreadsSpecInit == Init /\ controls /= None /\ ~win.fullscreen

SpecThreads == ThreadsSpecInit /\ [][ThreadsNext]_vars

\* The debouncer and the probe are explored from the start of the debouncer
SuspendSpecInit == Init /\ controls = None /\ ~win.fullscreen

SpecSuspend == SuspendSpecInit /\ [][SuspendNext]_vars

\* The saves are explored on a windowed start
SavesSpecInit == Init /\ controls = None /\ ~win.fullscreen

SpecSaves == SavesSpecInit /\ [][SavesNext]_vars

\* The power command is explored from one start
PowerSpecInit == Init /\ controls = None /\ ~win.fullscreen

SpecPower == PowerSpecInit /\ [][PowerNext]_vars

\* The settings commands are explored from one start
SettingsSpecInit == Init /\ controls = None /\ ~win.fullscreen

SpecSettings == SettingsSpecInit /\ [][SettingsNext]_vars

\* The request target is a function of the url alone
UrlSpecInit == Init /\ controls = None /\ ~win.fullscreen

SpecInfoUrl == UrlSpecInit /\ [][UrlNext]_vars

\* ------------------------------------------------------------------------
\* Claims about the persisted geometry
\* ------------------------------------------------------------------------
GeometrySizeKeys == {KeyX, KeyY, KeyW, KeyH}
SaveOps == {"command", "debounce"}

\* The placement the store holds, when x, y, w and h are all present
StoredPlacement(s) ==
    [x |-> s[KeyX], y |-> s[KeyY], w |-> s[KeyW], h |-> s[KeyH]]

\* C7: the persisted geometry never holds a width below 200 or a height
\* below 150.
C7_PersistedSizeAboveFloor ==
    /\ KeyW \in DOMAIN store => store[KeyW] >= 200
    /\ KeyH \in DOMAIN store => store[KeyH] >= 150

\* C8: at startup (without the CLI fullscreen override) the persisted
\* position and size are applied to the window exactly when x, y, w, h are
\* all present and w >= 200 and h >= 150; otherwise the window keeps the
\* default placement.
C8_RestoreOnlyAboveFloor ==
    last_geom.op = "startup" =>
        IF /\ ~last_geom.fullscreen
           /\ GeometrySizeKeys \subseteq DOMAIN store
           /\ store[KeyW] >= 200
           /\ store[KeyH] >= 150
        THEN PlacementOf(win) = StoredPlacement(store)
        ELSE PlacementOf(win) = DefaultPlacement

\* C8 witness: a start on a store holding w = 199, h = 150, rejected.
C8_Witness ==
    /\ last_geom.op = "startup"
    /\ ~last_geom.fullscreen
    /\ GeometrySizeKeys \subseteq DOMAIN store
    /\ store[KeyW] = 199
    /\ store[KeyH] = 150
    /\ PlacementOf(win) = DefaultPlacement

\* A start on a store holding w = 200, h = 150, applied.
C8_AcceptedAtFloor ==
    /\ last_geom.op = "startup"
    /\ GeometrySizeKeys \subseteq DOMAIN store
    /\ store[KeyW] = 200
    /\ store[KeyH] = 150
    /\ PlacementOf(win) = StoredPlacement(store)
    /\ PlacementOf(win) /= DefaultPlacement

C10_WitnessCommand ==
    /\ last_geom.op = "command"
    /\ last_geom.fullscreen
    /\ GeometrySizeKeys \subseteq DOMAIN store
    /\ StoredPlacement(store) /= PlacementOf(win)

\* ------------------------------------------------------------------------
\* Claims about the metadata cache
\* ------------------------------------------------------------------------

\* C1: after any sequence of notifyMetadata / notifyDuration calls the cached
\* metadata is the field-wise override fold of the calls (a field absent
\* from a call keeps its cached value), and what the last call published is
\* that fold too.
C1_CacheIsOverrideFold ==
    only_metadata_calls =>
        /\ CachedMetadata = fold
        /\ (controls /= None /\ last_call.op /= "init") =>
               os_metadata = Some([fold EXCEPT !.title = Some(fold.title)])

\* C2: notifyDuration(d) sets the cached duration to d, leaves title, artist,
\* album and coverUrl as the latest notifyMetadata set them, and publishes
\* exactly those four values together with duration d.
C2_DurationOnlyUpdate ==
    last_call.op = "duration" =>
        /\ cached_duration_ms = last_call.duration
        /\ cached_title = last_metadata_call.title
        /\ cached_artist = last_metadata_call.artist
        /\ cached_album = last_metadata_call.album
        /\ cached_cover_url = last_metadata_call.cover_url
        /\ controls /= None =>
               os_metadata = Some(MediaMetadata(last_metadata_call.title,
                                                last_metadata_call.artist,
                                                last_metadata_call.album,
                                                last_metadata_call.cover_url,
                                                last_call.duration))

\* C2 witness: a duration-only update after a full notifyMetadata, published
\* to an available session.
C2_Witness ==
    /\ last_call = [op |-> "duration", duration |-> Some(2000)]
    /\ controls /= None
    /\ last_metadata_call.title = "T1"
    /\ last_metadata_call.artist = Some("A1")
    /\ os_metadata = Some(MediaMetadata("T1", Some("A1"), Some("B1"),
                                        Some("U1"), Some(2000)))

\* C3: notifyStop resets the cached metadata to its empty defaults, so a
\* notifyDuration after the stop publishes none of the earlier title, artist,
\* album or cover.
C3_StopClearsCache ==
    /\ last_call.op = "stop" => CachedMetadata = EmptyMetadata
    /\ (last_call.op = "duration" /\ stop_since_metadata /\ controls /= None) =>
           os_metadata = Some(MediaMetadata("", None, None, None,
                                            last_call.duration))

\* ------------------------------------------------------------------------
\* Claims about the debouncer
\* ------------------------------------------------------------------------

\* C4: a burst of notifications with gaps below the quiet threshold,
\* followed by an idle period with the window not fullscreen, gives exactly
\* one geometry commit.
C4_OneCommitPerBurst ==
    (/\ spawned >= 1
     /\ DOMAIN tasks = {}
     /\ burst_ok
     /\ ~checks.blocked)
    => checks.commits = 1

\* C5: a check scheduled by a notification that has been superseded by a
\* later one performs no geometry write when it fires.
C5_StaleCheckIsNoOp == ~checks.stale_commit

\* C6: once notifications stop, the check scheduled by the last one fires
\* and passes, and a check that commits (window not fullscreen, placement
\* readable) persists the placement the window has at that moment.
C6_LastCheckCommits ==
    /\ [](~checks.newest_not_due)
    /\ [][(checks'.commits = checks.commits + 1 /\ ~win.maximized)
          => (/\ GeometrySizeKeys \subseteq DOMAIN store'
              /\ StoredPlacement(store') = PlacementOf(win)
              /\ StoreGet(store', KeyMaximized) = Some(FALSE))]_vars
    /\ \A id \in TaskIds : (id \in DOMAIN tasks) ~> (id \notin DOMAIN tasks)
    /\ []((spawned >= 1 /\ DOMAIN tasks = {} /\ ~checks.blocked)
             => checks.commits >= 1)

\* C6 witness: three notifications, all checks done, the only commit is the
\* one of the last notification, and it persisted where the window was
\* moved to in the meantime.
C6_Witness ==
    /\ spawned = 3
    /\ DOMAIN tasks = {}
    /\ checks.commits = 1
    /\ ~checks.stale_commit
    /\ GeometrySizeKeys \subseteq DOMAIN store
    /\ StoredPlacement(store) = PlacementOf(win)
    /\ PlacementOf(win) /= DefaultPlacement

\* ------------------------------------------------------------------------
\* Claims about the server probe
\* ------------------------------------------------------------------------
Resolved(p) == probes[p].pc = "done"
ResultOf(p) == probes[p].result[1]

\* C11: a probe during whose flight cancelProbe() was called, with no other
\* probe started during that flight, resolves with Cancelled, wherever it
\* was when the cancel arrived and whatever the request gave.
C11_CancelYieldsCancelled ==
    \A p \in ProbeIds :
        (Resolved(p) /\ probe_hist[p].cancelled /\ ~probe_hist[p].superseded)
            => ResultOf(p) = Cancelled

\* A cancel that arrives while the body is read (both flag checks found the
\* flag clear, no other probe was started): the probe resolves with success.
C11_CancelledWhileReadingBody ==
    \E p \in ProbeIds :
        /\ Resolved(p)
        /\ probe_hist[p].cancelled
        /\ ~probe_hist[p].superseded
        /\ probe_hist[p].check1 = "clear"
        /\ probe_hist[p].check2 = "clear"
        /\ ResultOf(p) = Ok(ServerInfo("Home", "10.9.0", "abc"))

\* A cancel that arrives while the request is awaited and the connection
\* fails: the probe resolves with the connection failure.
C11_CancelledWhileConnecting ==
    \E p \in ProbeIds :
        /\ Resolved(p)
        /\ probe_hist[p].cancelled
        /\ ~probe_hist[p].superseded
        /\ probe_hist[p].check1 = "clear"
        /\ ResultOf(p) = ConnectionFailed

\* C12: a cancelProbe() called while no probe is in flight affects no probe:
\* a probe finds the flag set, and resolves with Cancelled, only if a cancel
\* was called during its own flight, because its start reset the flag.
C12_CancelAffectsOnlyInFlight ==
    \A p \in ProbeIds :
        /\ (InFlight(p) /\ load_cancel_flag(p)) => probe_hist[p].cancelled
        /\ (Resolved(p) /\ ResultOf(p) = Cancelled) => probe_hist[p].cancelled

\* C12 witness: cancelProbe() was called before any probe was started, the
\* first probe then started on the set flag and resolved with success.
C12_Witness ==
    \E p \in ProbeIds :
        /\ \A q \in ProbeIds \ {p} : probes[q].pc = "idle"
        /\ probe_hist[p].flag_at_start
        /\ ~probe_hist[p].cancelled
        /\ Resolved(p)
        /\ ResultOf(p) = Ok(ServerInfo("Home", "10.9.0", "abc"))

\* The response probe p received would pass the status check and deserialize
RequestSucceeded(p) ==
    /\ probe_hist[p].connect = "ok"
    /\ is_success(probes[p].resp[1].status)
    /\ is_ok(json(probes[p].resp[1].body))

\* C13: a probe whose request succeeds returns its own success result when
\* no cancel was called after the latest reset of the flag, also when that
\* reset was the start of another probe B that wiped a cancel requested for
\* it; the two probes are in flight together and each resolves on its own
\* response.
C13_ResetDoesNotInvalidate ==
    \A p \in ProbeIds :
        (Resolved(p) /\ RequestSucceeded(p) /\ ~probe_hist[p].cancel_pending)
            => ResultOf(p) = json(probes[p].resp[1].body)

\* C13 witness: a cancel was requested for A, then B started while A was in
\* flight; A resolved with success and B with the failure of its own request.
C13_Witness ==
    \E a \in ProbeIds, b \in ProbeIds :
        /\ a /= b
        /\ probe_hist[a].cancel_then_reset
        /\ probe_hist[b].flag_at_start
        /\ Resolved(a)
        /\ ResultOf(a) = Ok(ServerInfo("Home", "10.9.0", "abc"))
        /\ Resolved(b)
        /\ ResultOf(b) = ServerReturnedStatus(404)

\* The one result the steps taken by probe p lead to
ExpectedResult(p) ==
    LET h == probe_hist[p]
        resp == probes[p].resp[1]
    IN  IF h.build = "err" THEN BuildFailed
        ELSE IF h.check1 = "set" THEN Cancelled
        ELSE IF h.connect = "failed" THEN ConnectionFailed
        ELSE IF h.check2 = "set" THEN Cancelled
        ELSE IF ~(200 <= resp.status /\ resp.status <= 299)
        THEN ServerReturnedStatus(resp.status)
        ELSE IF ~resp.body.json THEN InvalidServerResponse
        ELSE Ok([name |-> resp.body.ServerName, version |-> resp.body.Version,
                 id |-> resp.body.Id])

\* C14: a probe returns success with serverName, version and serverId
\* exactly when the request connected, the flag was clear at both checks,
\* the status is a success status and the body is the identity document;
\* otherwise it returns the one failure of the first step that failed
\* (build error, Cancelled, connection failed, non-success status with its
\* code, invalid body), never a success.
C14_SuccessExactlyWhenAllStepsPass ==
    \A p \in ProbeIds :
        Resolved(p) =>
            /\ ResultOf(p) = ExpectedResult(p)
            /\ is_ok(ResultOf(p)) <=>
                  /\ probe_hist[p].build = "ok"
                  /\ probe_hist[p].check1 = "clear"
                  /\ probe_hist[p].connect = "ok"
                  /\ probe_hist[p].check2 = "clear"
                  /\ probes[p].resp[1].status \in 200..299
                  /\ probes[p].resp[1].body = IdentityDocument

\* C14 witness: one probe resolved with success on a 200 with the identity
\* document, another with the status failure on a 404 carrying the same
\* document.
C14_Witness ==
    \E p \in ProbeIds, q \in ProbeIds :
        /\ Resolved(p)
        /\ probes[p].resp /= None
        /\ probes[p].resp[1].status = 200
        /\ ResultOf(p) = Ok(ServerInfo("Home", "10.9.0", "abc"))
        /\ Resolved(q)
        /\ probes[q].resp /= None
        /\ probe_hist[q].check2 = "clear"
        /\ probes[q].resp[1].body = IdentityDocument
        /\ ResultOf(q) = ServerReturnedStatus(404)

\* C15: a probe issues at most one HTTP request, none after a failure, and
\* none at all when it finds the flag set at the check before the request:
\* it then returns Cancelled.
C15_AtMostOneRequest ==
    \A p \in ProbeIds :
        /\ probe_hist[p].requests <= 1
        /\ probe_hist[p].check1 = "set" =>
              /\ probe_hist[p].requests = 0
              /\ Resolved(p)
              /\ ResultOf(p) = Cancelled
        /\ probe_hist[p].requests = 1 => probe_hist[p].check1 = "clear"

\* C15 witness: one probe found the flag set before its request and resolved
\* with Cancelled without a request; another failed to connect after its one
\* request.
C15_Witness ==
    \E p \in ProbeIds, q \in ProbeIds :
        /\ probe_hist[p].check1 = "set"
        /\ probe_hist[p].requests = 0
        /\ Resolved(p)
        /\ ResultOf(p) = Cancelled
        /\ Resolved(q)
        /\ ResultOf(q) = ConnectionFailed
        /\ probe_hist[q].requests = 1

\* ------------------------------------------------------------------------
\* Claims about the native media-control events
\* ------------------------------------------------------------------------

\* The action tag each event without payload is to be forwarded with
ExpectedTag(event) ==
    IF event.kind = "Play" THEN "play"
    ELSE IF event.kind = "Pause" THEN "pause"
    ELSE IF event.kind = "Toggle" THEN "play_pause"
    ELSE IF event.kind = "Next" THEN "next_track"
    ELSE IF event.kind = "Previous" THEN "previous_track"
    ELSE IF event.kind = "Stop" THEN "stop"
    ELSE IF event.direction = "Forward" THEN "seek_forward"
    ELSE "seek_backward"

\* C16: a native event without payload causes exactly one emission, of
\* media-control-event with its own action tag, and nothing else; no two of
\* these events are forwarded with the same tag.
C16_PayloadlessEventsMapOneToOne ==
    /\ last_event \in PayloadlessEvents =>
          /\ emitted = <<[event |-> "media-control-event",
                          action |-> ExpectedTag(last_event), value |-> 0]>>
          /\ exit_code = None
          /\ phase = "running"
    /\ \A e1 \in PayloadlessEvents, e2 \in PayloadlessEvents :
          translate(e1) = translate(e2) => e1 = e2

\* C16 witness: Toggle was forwarded as play_pause, once.
C16_Witness ==
    /\ last_event = MediaControlEvent("Toggle", "", 0, "")
    /\ Len(emitted) = 1
    /\ emitted[1].event = "media-control-event"
    /\ emitted[1].action = "play_pause"

\* The typed event and payload each event with payload is to be forwarded as
\* (durations in whole milliseconds, a backward seek negative)
ExpectedTyped(event) ==
    IF event.kind = "SeekBy"
    THEN [event |-> "media-seek-by", action |-> "",
          value |-> IF event.direction = "Forward" THEN event.value \div 1000
                    ELSE 0 - (event.value \div 1000)]
    ELSE IF event.kind = "SetPosition"
    THEN [event |-> "media-set-position", action |-> "",
          value |-> event.value \div 1000]
    ELSE [event |-> "media-set-volume", action |-> "", value |-> event.value]

\* C17: a native event with payload (SeekBy, SetPosition, SetVolume) causes
\* exactly one emission, of its own typed event carrying the payload, and no
\* emission of media-control-event.
C17_PayloadEventsAreTyped ==
    last_event \in PayloadEvents =>
        /\ emitted = <<ExpectedTyped(last_event)>>
        /\ \A i \in 1..Len(emitted) : emitted[i].event /= "media-control-event"
        /\ exit_code = None

\* C17 witness: a backward SeekBy of 5 s was forwarded as media-seek-by with
\* payload -5000.
C17_Witness ==
    /\ last_event = MediaControlEvent("SeekBy", "Backward", 5000000, "")
    /\ emitted = <<[event |-> "media-seek-by", action |-> "", value |-> -5000]>>

\* The state the callback leaves alone when it handles Raise, Quit or an
\* event outside the set
EventFrame ==
    <<media_vars, store, win, debounce_vars, probe_vars>>

\* C18: Raise, Quit and any event outside the set emit nothing: Raise only
\* unminimizes and focuses the main window, Quit only requests the exit with
\* code 0, an unknown event changes nothing.
C18_LocalEventsNotForwarded ==
    [][event_bit' /= event_bit =>
          /\ last_event'.kind = "Raise" =>
                /\ emitted' = <<>>
                /\ ~minimized' /\ focused'
                /\ exit_code' = None /\ phase' = phase
                /\ UNCHANGED EventFrame
          /\ last_event'.kind = "Quit" =>
                /\ emitted' = <<>>
                /\ exit_code' = Some(0) /\ phase' = "exited"
                /\ UNCHANGED <<minimized, focused>>
                /\ UNCHANGED EventFrame
          /\ last_event' \in OtherEvents =>
                /\ emitted' = <<>>
                /\ exit_code' = None /\ phase' = phase
                /\ UNCHANGED <<minimized, focused>>
                /\ UNCHANGED EventFrame]_vars

\* C18 witness: Quit arrived while the window was minimized: exit code 0,
\* nothing emitted, the window still minimized.
C18_Witness ==
    /\ last_event.kind = "Quit"
    /\ exit_code = Some(0)
    /\ phase = "exited"
    /\ emitted = <<>>
    /\ minimized

\* Raise as the last step: the window is not minimized and has the focus.
C18_Raised ==
    /\ last_event.kind = "Raise"
    /\ ~minimized /\ focused
    /\ emitted = <<>>
    /\ os_playback /= None

\* C19: the callback for a native event changes neither the playing flag,
\* nor the cached metadata, nor what was published to the OS session, and
\* what it does is a function of the event alone.
C19_CallbackLeavesPlaybackCache ==
    [][event_bit' /= event_bit =>
          /\ UNCHANGED <<is_playing, cached_title, cached_artist, cached_album,
                         cached_cover_url, cached_duration_ms, os_metadata,
                         os_playback, controls>>
          /\ emitted' = translate(last_event').emits
          /\ exit_code' = translate(last_event').exit
          /\ minimized' = (minimized /\ ~translate(last_event').raise)
          /\ focused' = (focused \/ translate(last_event').raise)]_vars

\* C19 witness: the Pause event was the last step, after the frontend had
\* notified playing and a position: the flag is still true and the session
\* still shows Playing at that position.
C19_Witness ==
    /\ last_event.kind = "Pause"
    /\ is_playing
    /\ os_playback = Some([state |-> "Playing", progress |-> Some(5000)])
    /\ cached_title = "T1"

\* ------------------------------------------------------------------------
\* Claims about the published progress
\* ------------------------------------------------------------------------

\* C20: while the published state is Playing, a notifyPosition call never
\* makes the published progress go backwards (no set-position event occurs
\* in this specification).
C20_ProgressMonotonicWhilePlaying ==
    [][(/\ last_call'.op = "position"
        /\ os_playback /= None
        /\ os_playback[1].state = "Playing"
        /\ os_playback[1].progress /= None
        /\ os_playback' /= None
        /\ os_playback'[1].state = "Playing")
       => os_playback'[1].progress[1] >= os_playback[1].progress[1]]_vars

\* ------------------------------------------------------------------------
\* Claims about the notify calls
\* ------------------------------------------------------------------------

\* C21: notifyPosition(p) publishes Playing with progress p when the most
\* recent of the notifyPlaybackState / notifyStop calls was
\* notifyPlaybackState(true), and Paused with progress p otherwise (also
\* before any such call and after notifyStop); it never publishes Stopped
\* and never changes the playing flag.
C21_PositionComposesPlayingFlag ==
    /\ [](call_hist.position /= None /\ controls /= None =>
             os_playback =
                Some([state |-> IF call_hist.playback = "play" THEN "Playing"
                                ELSE "Paused",
                      progress |-> call_hist.position]))
    /\ [][last_call'.op = "position" => is_playing' = is_playing]_vars

\* C21 witness: notifyPosition(5000) after notifyStop published Paused at
\* 5000.
C21_Witness ==
    /\ call_hist.playback = "stop"
    /\ call_hist.position = Some(5000)
    /\ os_playback = Some([state |-> "Paused", progress |-> Some(5000)])

\* notifyPosition(5000) after notifyPlaybackState(true) published Playing.
C21_WitnessPlaying ==
    /\ call_hist.playback = "play"
    /\ call_hist.position = Some(5000)
    /\ os_playback = Some([state |-> "Playing", progress |-> Some(5000)])

\* What the calls made so far leave in the playing flag and in the cache,
\* whatever the session
CacheFollowsCalls ==
    /\ is_playing = (call_hist.playback = "play")
    /\ cached_title = last_metadata_call.title
    /\ cached_artist = last_metadata_call.artist
    /\ cached_album = last_metadata_call.album
    /\ cached_cover_url = last_metadata_call.cover_url
    /\ cached_duration_ms = call_hist.duration

\* C22: without a media session nothing is ever published, and the playing
\* flag and the cache follow the notify calls exactly as they do with a
\* session.
C22_NoSessionStillCaches ==
    /\ controls = None => (os_metadata = None /\ os_playback = None)
    /\ CacheFollowsCalls

\* C22 witness: without a session, after notifyMetadata, notifyDuration,
\* notifyPlaybackState(true) and notifyPosition: flag and cache are set,
\* nothing was published.
C22_Witness ==
    /\ controls = None
    /\ is_playing
    /\ cached_title = "T2"
    /\ cached_artist = Some("A1")
    /\ cached_duration_ms = Some(2000)
    /\ call_hist.position = Some(5000)
    /\ os_metadata = None
    /\ os_playback = None

\* The calls accepted and not forwarded
GapOps == {"volume", "rate", "shuffle", "repeat", "queue"}

\* C23: notifyVolume, notifyRate, notifyShuffle, notifyRepeat and
\* notifyQueueCapability change neither the playing flag, nor the cached
\* metadata, nor what was last published to the session.
C23_GapCallsForwardNothing ==
    [][last_call'.op \in GapOps =>
          UNCHANGED <<is_playing, cached_title, cached_artist, cached_album,
                      cached_cover_url, cached_duration_ms, os_metadata,
                      os_playback, controls>>]_vars

\* C23 witness: notifyVolume as the last call, with a playing session
\* showing a title and a position.
C23_Witness ==
    /\ last_call.op = "volume"
    /\ is_playing
    /\ cached_title = "T1"
    /\ os_metadata /= None
    /\ os_playback = Some([state |-> "Playing", progress |-> Some(5000)])

\* ------------------------------------------------------------------------
\* Claims about the taskbar handle and the concurrent commands
\* ------------------------------------------------------------------------
\* C24: a taskbar interface that was created is released exactly once: never
\* twice, and once by the time the process has exited, whether HrInit failed
\* after the creation or the owner was stored in TASKBAR.
\* (TASKBAR is a static: nothing assigns to it after setup, and the exit of
\* the process does not drop statics, so the owner's Drop never runs.)
C24_HandleReleasedExactlyOnce ==
    /\ com.releases <= 1
    /\ (phase = "exited" /\ com.created) => com.releases = 1

\* C25: at most one thread at a time is inside a call on a foreign handle,
\* the taskbar interface or the media session, however the taskbar and notify
\* commands are called concurrently; the thread inside holds the handle's lock.
C25_OneThreadPerForeignHandle ==
    /\ Cardinality(inside.taskbar) <= 1
    /\ Cardinality(inside.controls) <= 1
    /\ \A t \in inside.taskbar : locks.TASKBAR = Some(t)
    /\ \A t \in inside.controls : locks.controls = Some(t)

\* One thread is inside a call on the session while another one has reached
\* the lock on it, after playback, metadata and a taskbar progress value have
\* all been handed over
C25_Witness ==
    /\ \E t \in ThreadIds :
          /\ t \in inside.controls
          /\ \E u \in ThreadIds \ {t} :
                threads[u].pc \in {"playback_state_lock", "stop_lock",
                                   "metadata_lock", "duration_lock"}
    /\ os_playback /= None
    /\ os_metadata /= None
    /\ com.progress /= None

\* Every command that was called has returned
AllReturned == \A t \in ThreadIds : threads[t].pc = "idle"

\* C29: once all the concurrent notifyMetadata / notifyDuration calls have
\* returned, the metadata last handed to the session equals the cached
\* metadata, field by field.
C29_PublishedMetadataEqualsCache ==
    (AllReturned /\ os_metadata /= None) =>
        os_metadata = Some(MediaMetadata(cached_title, cached_artist,
                                         cached_album, cached_cover_url,
                                         cached_duration_ms))

\* C30: once all the concurrent notifyPlaybackState / notifyStop calls have
\* returned, the playing flag is true exactly when the playback state last
\* handed to the session is Playing.
C30_FlagAgreesWithPublishedState ==
    (AllReturned /\ os_playback /= None) =>
        (is_playing <=> os_playback[1].state = "Playing")

\* ------------------------------------------------------------------------
\* Claims about suspension points
\* ------------------------------------------------------------------------
Suspended(id) == task_pc[id] \in {"sleep", "save"}

Awaiting(p) == probes[p].pc \in {"await", "read_body"}

\* C26: no lock is held across a suspension point.  A debounce task that
\* sleeps or awaits the geometry save does not hold the timer's lock, so with
\* only such tasks around the lock is free for a move/resize notification;
\* a step of the probe neither takes nor releases a lock, and while the probe
\* awaits the network or the body a cancel call can run.
C26_NoLockAcrossSuspension ==
    /\ [](\A id \in DOMAIN task_pc : Suspended(id) => locks.debounce_timer /= Some(id))
    /\ []((\A id \in DOMAIN task_pc : Suspended(id)) => free("debounce_timer"))
    /\ [](Awaiting(FirstProbe) => ENABLED cancel_server_connectivity)
    /\ [][(probes' /= probes \/ cancel_flag' /= cancel_flag) => locks' = locks]_vars

\* One task awaits its save and a later one sleeps, the timer's lock being
\* free, while the probe awaits the network and a cancel call was made
C26_Witness ==
    /\ \E id1, id2 \in DOMAIN task_pc :
          task_pc[id1] = "save" /\ task_pc[id2] = "sleep" /\ id1 < id2
    /\ free("debounce_timer")
    /\ probes[FirstProbe].pc = "await"
    /\ probe_hist[FirstProbe].cancelled

\* ------------------------------------------------------------------------
\* Claims about the request target
\* ------------------------------------------------------------------------
\* The characters of u up to its last one that is not a slash
WithoutTrailingSlashes(u) ==
    LET keep == {i \in 1..Len(u) : u[i] /= "/"}
        last == IF keep = {} THEN 0 ELSE CHOOSE i \in keep : \A j \in keep : j <= i
    IN  SubSeq(u, 1, last)

\* C27: the probe requests the url with all of its trailing slashes removed,
\* followed by exactly /System/Info/Public: no slash is doubled at the join,
\* and the url with one more trailing slash gives the same target.
C27_TargetIsTrimmedUrlPlusPath ==
    url_arg /= None =>
        LET u == url_arg[1]
            stem == WithoutTrailingSlashes(u) IN
        /\ requested = Some(stem \o <<"/", "System/Info/Public">>)
        /\ (stem /= <<>> => stem[Len(stem)] /= "/")
        /\ info_url(u \o <<"/">>) = requested[1]

\* A url ending in two slashes was turned into its target
C27_Witness ==
    /\ url_arg = Some(<<"h", ":", "/", "/">>)
    /\ requested = Some(<<"h", ":", "/", "System/Info/Public">>)

\* ------------------------------------------------------------------------
\* Claims about the payload of media-seek-by
\* ------------------------------------------------------------------------
Abs(n) == IF n < 0 THEN 0 - n ELSE n

\* C28: the payload of media-seek-by is the seek duration in whole
\* milliseconds with the direction as its sign: its absolute value is the
\* number of whole milliseconds in the duration, it is not negative for a
\* forward seek and not positive for a backward one, and 0 for a zero
\* duration in both directions.
C28_SeekByPayloadSignedMillis ==
    last_event.kind = "SeekBy" =>
        /\ Len(emitted) = 1
        /\ emitted[1].event = "media-seek-by"
        /\ LET micros == last_event.value
               payload == emitted[1].value IN
           /\ Abs(payload) * 1000 <= micros
           /\ micros < (Abs(payload) + 1) * 1000
           /\ last_event.direction = "Forward" => payload >= 0
           /\ last_event.direction = "Backward" => payload <= 0
           /\ micros = 0 => payload = 0

\* A backward seek by 1.5 ms was forwarded with payload -1
C28_Witness ==
    /\ last_event = MediaControlEvent("SeekBy", "Backward", 1500, "")
    /\ emitted = <<[event |-> "media-seek-by", action |-> "", value |-> -1]>>

\* ------------------------------------------------------------------------
\* Claims about concurrent geometry saves
\* ------------------------------------------------------------------------
\* No call of window_save_geometry is between its first and its last statement
NoSaveRunning == \A id \in SaveIds : savers[id].pc \in {"idle", "done"}

\* C31: once the saves have returned, the persisted x, y, w and h were all
\* written by one and the same call of window_save_geometry, however the
\* calls were interleaved; keys written by different calls are let pass
\* when they still add up to a placement the window has taken.
C31_SnapshotFromOneSave ==
    (NoSaveRunning /\ GeometrySizeKeys \subseteq DOMAIN store) =>
        \/ /\ geom_writer[KeyY] = geom_writer[KeyX]
           /\ geom_writer[KeyW] = geom_writer[KeyX]
           /\ geom_writer[KeyH] = geom_writer[KeyX]
        \/ StoredPlacement(store) \in SavePlacements

\* ------------------------------------------------------------------------
\* Claims about a failing geometry save
\* ------------------------------------------------------------------------
\* The save takes the windowed branch: neither query answers true
Windowed(w, q) ==
    /\ ~unwrap_or(is_fullscreen(w, q), FALSE)
    /\ ~unwrap_or(is_maximized(w, q), FALSE)

\* C32: when the position or the size cannot be read during a windowed save,
\* window_save_geometry returns an error and the store is as it was; after a
\* save that returned an error the program runs on with the store it had,
\* and a save whose queries answer returns Ok and, windowed, commits the
\* placement of the window.
C32_FailedReadWritesNothing ==
    /\ \A q \in Queries :
          (Windowed(win, q) /\ (~q.position_ok \/ ~q.size_ok)) =>
              LET r == window_save_geometry(store, win, q) IN
              r.result = "Err" /\ r.store = store
    /\ (last_geom.op \in SaveOps /\ last_geom.result = "Err") =>
          /\ store = last_geom.pre
          /\ ~last_geom.fullscreen /\ ~last_geom.maximized
          /\ phase = "running"
          /\ LET r == window_save_geometry(store, win, AllAnswered) IN
             /\ r.result = "Ok"
             /\ Windowed(win, AllAnswered) =>
                   StoredPlacement(r.store) = PlacementOf(win)

\* The save of a debounce task failed on a window that has moved since the
\* placement in the store was written: the store still holds the old one
C32_Witness ==
    /\ last_geom.op = "debounce"
    /\ last_geom.result = "Err"
    /\ GeometrySizeKeys \subseteq DOMAIN store
    /\ store = last_geom.pre
    /\ StoredPlacement(store) /= PlacementOf(win)

\* ------------------------------------------------------------------------
\* Claims about the settings sections
\* ------------------------------------------------------------------------
\* C33: after settings_delete_section(S) the values of section S are gone
\* and settings_get_all(S) is the empty map, while the value of every key of
\* every other section, the saved server URL and the state.geometry keys
\* are what they were before the call.
C33_DeleteSectionTouchesOnlyItsSection ==
    last_settings.op = "delete_section" =>
        LET S == last_settings.section
            pre == last_settings.pre
        IN  /\ \A key \in SettingKeys :
                   settings_get_value(settings_store, S, key) = Null
            /\ DOMAIN settings_get_all(settings_store, S) = {}
            /\ \A T \in Sections \ {S} : \A key \in SettingKeys :
                   settings_get_value(settings_store, T, key)
                       = settings_get_value(pre, T, key)
            /\ StoreGet(settings_store, ServerUrlKey) = StoreGet(pre, ServerUrlKey)
            /\ \A g \in SavedKeys :
                   StoreGet(settings_store, KeyChars(g)) = StoreGet(pre, KeyChars(g))

\* ------------------------------------------------------------------------
\* Claims about the screensaver inhibition
\* ------------------------------------------------------------------------
\* C34: when the last power_set_screensaver_enabled call had enabled = true
\* and no D-Bus connection, call or reply has failed, no cookie obtained by
\* an Inhibit of this process is still active at the service.
C34_NoInhibitionAfterEnable ==
    (last_enabled = Some(TRUE) /\ ~dbus_failed) => inhibited = {}

====
